---- MODULE Spec2Model ----
(***************************************************************************)
(* Model of the Rabbit Air protocol client (rabbitair/client.py, udp.py,   *)
(* tcp.py): one Client object driven by one asyncio task.  A step of the   *)
(* model runs the task from one await point (sock_connect, sock_sendall,   *)
(* sock_recv) to the next.                                                 *)
(***************************************************************************)
EXTENDS Integers, Sequences, FiniteSets, TLC

\* ------------------------------------------------------------------ bounds
\* number of facade calls (get_state / set_state / get_info) in one run
MaxCalls == 3
\* the clock (CLOCK_BOOTTIME) is read in half seconds, 0 .. MaxClock
MaxClock == 1

\* ------------------------------------------------------- program constants
\* SystemRandom().randrange(0x1000000)
IdRange == 16777216
\* UdpClient.retry_count
retry_count == 3
CmdState == 4
CmdTs == 9
CmdInfo == 255
FilterMax == 525600
TimerMax == 1440
ColorLen == 9
ColorMax == 40
ScheduleLen == 24

\* Optional[...]: None is the empty tuple, a value v is <<v>>
None == <<>>
Some(v) == <<v>>
Val(o) == o[1]

VARIABLES
    transport,   \* "udp" (UdpClient) or "tcp" (TcpClient)
    token,       \* self._token: "none", "valid" (an AES key) or "badlen" (bytes of no AES key size)
    sock,        \* self._sock: "none" (None), "open", "closed" (handle kept, socket closed)
    ts_diff,     \* self._ts_diff, in half seconds: None or Some(2*ts - clock)
    ivc,         \* the number of IVs drawn from os.urandom so far
    idc,         \* self._id
    id0,         \* the value self._id was constructed with
    clock,       \* the last value Client._clock() returned, in half seconds
    pc,          \* where the task is suspended: "idle", "connect", "send", "recv"
    facade,      \* the facade operation in progress (or last run)
    args,        \* the arguments of the last set_state call
    request,     \* the dict passed to command(): [cmd, ts, id]
    cur,         \* what _exchange is exchanging: [id, cmd, ts, iv, enc]
    attempt,     \* UdpClient._exchange: i + 1 of the for loop
    sent,        \* the messages written to the socket by the command in progress (or last run)
    result,      \* how the last finished facade call ended
    lastRecv,    \* the packet the last step received, if that step was a receive
    didConnect,  \* the command in progress (or last run) ran _start
    hadOffset,   \* the clock offset was set when the command in progress (or last run) began
    connIds,     \* the ids assigned since the connection was opened
    exchanged,   \* an exchange has succeeded since the last disconnect (_stop or __exit__)
    tcpio,       \* a TCP stream and the TcpClient._recvmsg reading it, byte by byte
    aes,         \* a message under _encrypt and _decrypt, byte by byte
    ctor,        \* a call of the constructor: the token string given and what came of it
    view,    \* a State view of response data and what reading it gave
    timer,   \* the deadline of asyncio.wait_for around the attempts of a command
    ov,      \* two command invocations that overlap on one session
    withExit,    \* how the with block was left, when the last step was its __exit__
    ncalls       \* facade calls made so far

vars == <<transport, token, sock, ts_diff, ivc, idc, id0, clock, pc, facade, args,
          request, cur, attempt, sent, result, lastRecv, didConnect, hadOffset,
          connIds, exchanged, tcpio, aes, ctor, view, timer, ov, withExit, ncalls>>

session == <<sock, ts_diff, idc>>

config == <<transport, token, id0>>

\* the views kept beside the client (the bytes of the transport, the
\* constructor, the State view, the deadline, the overlapping tasks), which
\* the steps of a command leave alone
bytesView == <<tcpio, aes, ctor, view, timer, ov>>

client == <<transport, token, sock, ts_diff, ivc, idc, id0, clock, pc, facade, args,
            request, cur, attempt, sent, result, lastRecv, didConnect, hadOffset,
            connIds, exchanged, withExit, ncalls>>

hist == <<didConnect, hadOffset>>

\* ------------------------------------------------------------ enumerations
\* an Enum class is the sequence of its members, as they are defined
Member(n, v) == [name |-> n, value |-> v]
Model == <<Member("MinusA2", 1), Member("BioGS", 2), Member("A3", 3)>>
Mode == <<Member("Auto", 0), Member("Pollen", 1), Member("Manual", 2)>>
Speed ==
    <<Member("SuperSilent", 0), Member("Silent", 1), Member("Low", 2),
      Member("Medium", 3), Member("High", 4), Member("Turbo", 5)>>
Quality ==
    <<Member("Lowest", 0), Member("Low", 1), Member("Medium", 2),
      Member("High", 3), Member("Highest", 4)>>
Sensitivity == <<Member("High", 0), Member("Medium", 1), Member("Low", 2)>>
\* not @unique: Preset1 has the value of Auto and is an alias of it
Moodlight ==
    <<Member("Off", 0), Member("On", 1), Member("Auto", 2), Member("Preset1", 2),
      Member("Preset2", 3), Member("Preset3", 4)>>
Lights == <<Member("Off", 0), Member("On", 1), Member("Auto", 2)>>
Error ==
    <<Member("NoError", 0), Member("DustSensor", 1), Member("GasSensor", 2),
      Member("GasAndDust", 3), Member("FanLow", 4), Member("NFC", 5),
      Member("HallSensor", 8)>>
FilterType ==
    <<Member("Unknown", 0), Member("ToxinAbsorber", 1), Member("OdorRemover", 2),
      Member("GermDefense", 3), Member("PetAllergy", 4)>>
Gas ==
    <<Member("Preheat", 0), Member("Level1", 1), Member("Level2", 2),
      Member("Level3", 3), Member("Level4", 4)>>
TimerMode == <<Member("Off", 0), Member("On", 1), Member("Schedule", 2)>>

Names(enum) == {enum[i].name : i \in 1..Len(enum)}
\* member.value
EnumValue(enum, name) == enum[CHOOSE i \in 1..Len(enum) : enum[i].name = name].value
\* Enum(value): the first member defined with this value, None for the
\* ValueError of a value that no member has
EnumLookup(enum, value) ==
    IF \E i \in 1..Len(enum) : enum[i].value = value
    THEN Some(enum[CHOOSE i \in 1..Len(enum) :
                       /\ enum[i].value = value
                       /\ \A j \in 1..(i - 1) : enum[j].value # value].name)
    ELSE None

\* ----------------------------------------------------------- set_state input
\* the parameters of set_state, all None by default; an enum argument is the
\* name of its member
NoArgs == [power |-> None, mode |-> None, speed |-> None, sensitivity |-> None,
           ionizer |-> None, moodlight |-> None, filter_cleaning |-> None,
           filter_replacement |-> None, filter_life |-> None, filter_timer |-> None,
           lights |-> None, color |-> None, light_sensor_ctl |-> None,
           filter_ctl |-> None, buzzer |-> None, child_lock |-> None,
           timer_mode |-> None, timer |-> None, schedule |-> None]

\* characters of a schedule, as code points: "/" "0" "5" "6" "A" "B"
Ch0 == 48
Ch5 == 53
ChA == 65
Chars == {47, Ch0, Ch5, 54, ChA, 66}

IntArgs(max) == {Some(-1), Some(0), Some(max), Some(max + 1)}
SeqWith(len, p, v, base) == [i \in 1..len |-> IF i = p THEN v ELSE base]
Colors ==
    {Some(SeqWith(len, 0, 0, 0)) : len \in {0, ColorLen - 1, ColorLen + 1}}
    \cup {Some(SeqWith(ColorLen, p, v, 0)) :
              p \in {1, ColorLen}, v \in {-1, 0, ColorMax, ColorMax + 1}}
Schedules ==
    {Some(SeqWith(len, 0, ChA, ChA)) : len \in {3, ScheduleLen - 1, ScheduleLen + 1}}
    \cup {Some(SeqWith(ScheduleLen, p, c, ChA)) : p \in {1, ScheduleLen}, c \in Chars}

\* the argument tuples of set_state in the runs of the whole client
CoreArgs ==
    {[NoArgs EXCEPT !.timer = Some(TimerMax)], [NoArgs EXCEPT !.filter_life = Some(-1)]}

\* the call of test_set_state
TestColor == <<31, 0, 20, 0, 22, 40, 22, 30, 6>>
TestSchedule == [i \in 1..ScheduleLen |-> IF i % 7 = 1 THEN ChA ELSE Ch0 + ((i - 2) % 7)]
TestCall ==
    [power |-> Some(TRUE), mode |-> Some("Manual"), speed |-> Some("Medium"),
     sensitivity |-> Some("Medium"), ionizer |-> Some(TRUE), moodlight |-> Some("On"),
     filter_cleaning |-> Some(FALSE), filter_replacement |-> Some(FALSE),
     filter_life |-> Some(FilterMax), filter_timer |-> Some(0), lights |-> Some("Off"),
     color |-> Some(TestColor), light_sensor_ctl |-> Some(TRUE),
     filter_ctl |-> Some(TRUE), buzzer |-> Some(TRUE), child_lock |-> Some(FALSE),
     timer_mode |-> Some("Schedule"), timer |-> Some(60), schedule |-> Some(TestSchedule)]

Flags == {Some(TRUE), Some(FALSE)}
\* calls with the arguments that are passed on unchecked: one given, or all
PlainArgs ==
    {TestCall}
    \cup {[NoArgs EXCEPT !.power = v] : v \in Flags}
    \cup {[NoArgs EXCEPT !.ionizer = Some(FALSE)],
          [NoArgs EXCEPT !.filter_cleaning = Some(TRUE)],
          [NoArgs EXCEPT !.filter_replacement = Some(TRUE)],
          [NoArgs EXCEPT !.buzzer = Some(FALSE)]}
    \cup {[NoArgs EXCEPT !.light_sensor_ctl = v] : v \in Flags}
    \cup {[NoArgs EXCEPT !.filter_ctl = v] : v \in Flags}
    \cup {[NoArgs EXCEPT !.child_lock = v] : v \in Flags}
    \cup {[NoArgs EXCEPT !.mode = Some(n)] : n \in Names(Mode)}
    \cup {[NoArgs EXCEPT !.speed = Some("Turbo")],
          [NoArgs EXCEPT !.sensitivity = Some("Low")],
          [NoArgs EXCEPT !.moodlight = Some("Preset1")],
          [NoArgs EXCEPT !.lights = Some("Auto")],
          [NoArgs EXCEPT !.timer_mode = Some("Off")]}

\* the argument tuples set_state is called with: one argument given, or two
SetStateArgs ==
    {NoArgs}
    \cup PlainArgs
    \cup {[NoArgs EXCEPT !.filter_life = v] : v \in IntArgs(FilterMax)}
    \cup {[NoArgs EXCEPT !.filter_timer = v] : v \in IntArgs(FilterMax)}
    \cup {[NoArgs EXCEPT !.timer = v] : v \in IntArgs(TimerMax)}
    \cup {[NoArgs EXCEPT !.color = v] : v \in Colors}
    \cup {[NoArgs EXCEPT !.schedule = v] : v \in Schedules}
    \cup {[NoArgs EXCEPT !.filter_life = v, !.timer = w] :
              v \in {Some(0), Some(FilterMax + 1)}, w \in {Some(-1), Some(TimerMax)}}

\* a color check that lets 41 through
ColorBadOffByOne(v) == v < 0 \/ v > ColorMax + 1
ColorBad(v) == v < 0 \/ v > ColorMax
ScheduleBad(v) == (v < Ch0 \/ v > Ch5) /\ v # ChA

\* set_state, the checks made while the data mapping is built: the message of
\* the ValueError raised, or None when the arguments pass
SetStateError(a) ==
    IF a.filter_life # None
       /\ (Val(a.filter_life) < 0 \/ Val(a.filter_life) > FilterMax)
    THEN Some("filter life")
    ELSE IF a.filter_timer # None
       /\ (Val(a.filter_timer) < 0 \/ Val(a.filter_timer) > FilterMax)
    THEN Some("filter timer")
    ELSE IF a.color # None /\ Len(Val(a.color)) # ColorLen
    THEN Some("color length")
    ELSE IF a.color # None /\ \E i \in 1..Len(Val(a.color)) : ColorBad(Val(a.color)[i])
    THEN Some("color values")
    ELSE IF a.timer # None /\ (Val(a.timer) < 0 \/ Val(a.timer) > TimerMax)
    THEN Some("timer")
    ELSE IF a.schedule # None /\ Len(Val(a.schedule)) # ScheduleLen
    THEN Some("schedule length")
    ELSE IF a.schedule # None
       /\ \E i \in 1..Len(Val(a.schedule)) : ScheduleBad(Val(a.schedule)[i])
    THEN Some("schedule values")
    ELSE None

\* member.value of an enum argument that is given
ValueOf(enum, arg) == IF arg = None THEN None ELSE Some(EnumValue(enum, Val(arg)))

\* a set_state that takes `if x:` for `if x is not None:` and so drops False
DropFalse(arg) == IF arg = Some(FALSE) THEN None ELSE arg
SetStateDataTruthy(a) ==
    [power |-> DropFalse(a.power), mode |-> ValueOf(Mode, a.mode),
     speed |-> ValueOf(Speed, a.speed),
     sensitivity |-> ValueOf(Sensitivity, a.sensitivity),
     ionizer |-> DropFalse(a.ionizer), moodlight |-> ValueOf(Moodlight, a.moodlight),
     filter_cleaning |-> DropFalse(a.filter_cleaning),
     filter_replacement |-> DropFalse(a.filter_replacement),
     filter_life |-> a.filter_life, filter_timer |-> a.filter_timer,
     all_light_off |-> ValueOf(Lights, a.lights), color |-> a.color,
     lsens_ctl |-> DropFalse(a.light_sensor_ctl), filter_ctl |-> DropFalse(a.filter_ctl),
     buzzer |-> DropFalse(a.buzzer), lock |-> DropFalse(a.child_lock),
     timer_mode |-> ValueOf(TimerMode, a.timer_mode), timer |-> a.timer,
     schedule |-> a.schedule]

\* set_state, the data mapping it builds: a key of the wire holds None when
\* the mapping has no such key
SetStateData(a) ==
    [power |-> a.power, mode |-> ValueOf(Mode, a.mode),
     speed |-> ValueOf(Speed, a.speed),
     sensitivity |-> ValueOf(Sensitivity, a.sensitivity),
     ionizer |-> a.ionizer, moodlight |-> ValueOf(Moodlight, a.moodlight),
     filter_cleaning |-> a.filter_cleaning,
     filter_replacement |-> a.filter_replacement,
     filter_life |-> a.filter_life, filter_timer |-> a.filter_timer,
     all_light_off |-> ValueOf(Lights, a.lights), color |-> a.color,
     lsens_ctl |-> a.light_sensor_ctl, filter_ctl |-> a.filter_ctl,
     buzzer |-> a.buzzer, lock |-> a.child_lock,
     timer_mode |-> ValueOf(TimerMode, a.timer_mode), timer |-> a.timer,
     schedule |-> a.schedule]

Facades == {"get_state", "set_state", "get_info"}
FacadeCmd(op) == IF op = "get_info" THEN CmdInfo ELSE CmdState
\* the dict each facade operation passes to command()
FacadeRequest(op, a) ==
    [cmd |-> FacadeCmd(op),
     data |-> IF op = "set_state" THEN Some(SetStateData(a)) ELSE None,
     ts |-> None, id |-> None]

\* ------------------------------------------------------------------ engine
NoRequest == [cmd |-> 0, data |-> None, ts |-> None, id |-> None]
NoMsg == [id |-> 0, cmd |-> 0, data |-> None, ts |-> None, iv |-> 0, enc |-> FALSE]
NoResult == [kind |-> "none", exc |-> "", origin |-> "", id |-> None]

\* the fields of the client and the locals of the running command, as one record
St == [sock |-> sock, ts_diff |-> ts_diff, clock |-> clock, ivc |-> ivc, idc |-> idc,
       connIds |-> connIds, exchanged |-> exchanged,
       pc |-> pc, request |-> request, cur |-> cur, attempt |-> attempt,
       result |-> result]

Set(n) ==
    /\ sock' = n.sock
    /\ ts_diff' = n.ts_diff
    /\ clock' = n.clock
    /\ ivc' = n.ivc
    /\ idc' = n.idc
    /\ connIds' = n.connIds
    /\ exchanged' = n.exchanged
    /\ pc' = n.pc
    /\ request' = n.request
    /\ cur' = n.cur
    /\ attempt' = n.attempt
    /\ result' = n.result

\* os.urandom(16), the IV of one _encrypt call: every draw gives a value no
\* earlier draw gave, the n-th draw is written n
FreshIV(n) == n + 1

\* a round() that takes every half upwards
RoundHalfUp(x2) == (x2 + 1) \div 2
\* Python's round() of a number of half seconds: ties go to the even integer
Round(x2) ==
    IF x2 % 2 = 0 THEN x2 \div 2
    ELSE LET f == (x2 - 1) \div 2 IN IF f % 2 = 0 THEN f ELSE f + 1

\* _clock(): CLOCK_BOOTTIME never goes back; the values it may return next
\* (a client without a token never reads it)
Clock == IF token = "none" THEN {clock} ELSE clock..MaxClock

\* _get_ts: round(self._clock() + self._ts_diff), the clock reading now
GetTs(s, now) == Round(now + Val(s.ts_diff))

\* _next_id: the value returned, and the counter it leaves
NextIdValue(i) == i
\* a counter that wraps at the range of the first id
NextIdWraps(i) == (i + 1) % IdRange
NextIdCounter(i) == i + 1

\* a _stop that forgets the clock offset
StopKeepsOffset(s) ==
    [s EXCEPT !.sock = "none", !.connIds = <<>>, !.exchanged = FALSE]

\* _stop
Stop(s) ==
    [s EXCEPT !.sock = "none", !.ts_diff = None, !.connIds = <<>>, !.exchanged = FALSE]

\* the command (or facade call) is over: its locals are gone
Finish(s, res) ==
    [s EXCEPT !.pc = "idle", !.result = res, !.request = NoRequest,
              !.cur = NoMsg, !.attempt = 0]

\* except clauses that stop the session on ProtocolError too
RaiseStopsAlways(s, exc) ==
    Finish(Stop(s), [kind |-> "raise", exc |-> exc, origin |-> "command", id |-> None])

\* command(), the except clauses: ProtocolError is re-raised as it is, any
\* other Exception after _stop (whose assertion fails when there is no socket)
Raise(s, exc) ==
    IF exc = "ProtocolError"
    THEN Finish(s, [kind |-> "raise", exc |-> exc, origin |-> "command", id |-> None])
    ELSE Finish(Stop(s),
                [kind |-> "raise",
                 exc |-> IF s.sock = "none" THEN "AssertionError" ELSE exc,
                 origin |-> "command", id |-> None])

\* json.dumps(request) and, with a token, _encrypt under IV iv
Serialize(req, iv) ==
    [id |-> Val(req.id), cmd |-> req.cmd, data |-> req.data, ts |-> req.ts,
     iv |-> iv, enc |-> token # "none"]

\* _command up to its first await: serialize, encrypt (AES() rejects a key of
\* a wrong size with ValueError), then _exchange starts with _sendmsg
Command(s, req) ==
    IF token = "none"
    THEN [s EXCEPT !.cur = Serialize(req, 0), !.pc = "send", !.attempt = 1]
    ELSE IF token = "badlen"
    THEN Raise(s, "ValueError")
    ELSE [s EXCEPT !.cur = Serialize(req, FreshIV(s.ivc)), !.ivc = s.ivc + 1,
                   !.pc = "send", !.attempt = 1]

\* command(): request["id"] = self._next_id(); return await self._command(request)
Outer(s, req) ==
    LET r == [req EXCEPT !.id = Some(NextIdValue(s.idc))]
        s1 == [s EXCEPT !.idc = NextIdCounter(s.idc),
                        !.connIds = Append(s.connIds, NextIdValue(s.idc)),
                        !.request = r]
    IN Command(s1, r)

\* a command() that synchronises the clock whether there is a token or not
ProceedIgnoresToken(s, req, now) ==
    IF s.ts_diff = None
    THEN LET tsreq == [cmd |-> CmdTs, data |-> None, ts |-> None,
                       id |-> Some(NextIdValue(s.idc))]
             s1 == [s EXCEPT !.idc = NextIdCounter(s.idc),
                             !.connIds = Append(s.connIds, NextIdValue(s.idc)),
                             !.request = req]
         IN Command(s1, tsreq)
    ELSE Outer([s EXCEPT !.clock = now], [req EXCEPT !.ts = Some(GetTs(s, now))])

\* command() after _start: with a token and no clock offset the timestamp
\* query comes first, with an offset the request gets ts = _get_ts()
Proceed(s, req, now) ==
    IF token = "none" THEN Outer(s, req)
    ELSE IF s.ts_diff = None
    THEN LET tsreq == [cmd |-> CmdTs, data |-> None, ts |-> None,
                       id |-> Some(NextIdValue(s.idc))]
             s1 == [s EXCEPT !.idc = NextIdCounter(s.idc),
                             !.connIds = Append(s.connIds, NextIdValue(s.idc)),
                             !.request = req]
         IN Command(s1, tsreq)
    ELSE Outer([s EXCEPT !.clock = now], [req EXCEPT !.ts = Some(GetTs(s, now))])

\* the command is in its timestamp query: the outer request has no id yet
InTsQuery(s) == s.request.id = None

\* ----------------------------------------------------------------- network
\* the timestamps a device reports (seconds)
TsValues == {4, 7}

\* What sock_recv can return.  kind: "undecryptable" (bytes _decrypt rejects),
\* "badutf8" (bytes that are no UTF-8/16/32 text), "notjson" (text that is no
\* JSON), "nonobject" (a JSON list, number, string or null), "noid" (a JSON
\* object without "id"), "obj" (a JSON object with "id").  error: the object
\* has a truthy "error".  data: "none" (no "data"), "nots" ("data" without
\* "ts"), "ts" ("data" with "ts": tsv).
Noise(kind) == [kind |-> kind, id |-> 0, error |-> FALSE, data |-> "none", tsv |-> 0]
Reply(i, e, d, t) == [kind |-> "obj", id |-> i, error |-> e, data |-> d, tsv |-> t]
\* The packets that may arrive while request cur.id is outstanding: noise,
\* replies to other ids (the first id of the client, the id before cur.id and
\* the id after it, as far as they were assigned; idc itself, not assigned
\* yet), and the replies to cur.id: an error, or a result with each shape of
\* "data"
OtherIds == {i \in {id0, cur.id - 1, cur.id + 1, idc} : id0 <= i /\ i <= idc /\ i # cur.id}
Packets ==
    {Noise(k) : k \in {"badutf8", "notjson", "nonobject", "noid"}}
    \cup (IF token = "none" THEN {} ELSE {Noise("undecryptable")})
    \cup {Reply(i, FALSE, "none", 0) : i \in OtherIds}
    \cup {Reply(cur.id, TRUE, "none", 0), Reply(cur.id, FALSE, "none", 0),
          Reply(cur.id, FALSE, "nots", 0)}
    \cup {Reply(cur.id, FALSE, "ts", t) : t \in TsValues}

\* the clock readings to consider when packet p arrives: the clock is read
\* only on a reply that carries a timestamp
ClockOn(p) == IF p.data = "ts" THEN Clock ELSE {clock}

\* what the log keeps of a received packet: its kind (for an object with an id:
\* "match" when it answers request_id, "stale" when it answers an earlier id,
\* "mismatch" when a later one) and its content
NoRecv == [kind |-> "none", error |-> FALSE, data |-> "none", tsv |-> 0]
Recorded(p, request_id) ==
    [kind |-> IF p.kind # "obj" THEN p.kind
              ELSE IF p.id = request_id THEN "match"
              ELSE IF p.id < request_id THEN "stale" ELSE "mismatch",
     error |-> p.error, data |-> p.data, tsv |-> p.tsv]

\* a comparison that takes the reply to an earlier request too
IdMatchesEarlier(pid, request_id) == pid <= request_id

\* response["id"] == request_id
IdMatches(pid, request_id) == pid = request_id

\* One turn of the loop of Client._exchange on packet p: "raise:<exception>"
\* when the turn raises out of the loop, "discard" when the loop goes on, and
\* "match" when it returns the response
Classify(p, request_id) ==
    IF token # "none" /\ p.kind = "undecryptable" THEN "raise:ValueError"
    ELSE IF p.kind = "badutf8" THEN "raise:UnicodeDecodeError"
    ELSE IF p.kind = "notjson" THEN "discard"      \* json.JSONDecodeError
    ELSE IF p.kind = "nonobject" THEN "raise:TypeError"
    ELSE IF p.kind = "noid" THEN "discard"         \* KeyError
    ELSE IF IdMatches(p.id, request_id) THEN "match"
    ELSE "discard"

RaisedBy(c) ==
    CASE c = "raise:ValueError" -> "ValueError"
      [] c = "raise:UnicodeDecodeError" -> "UnicodeDecodeError"
      [] c = "raise:TypeError" -> "TypeError"

\* the facade operation after command() returned response p: get_state and
\* get_info read response["data"], set_state returns None
FacadeReturn(s, p) ==
    IF facade # "set_state" /\ p.data = "none"
    THEN Finish(s, [kind |-> "raise", exc |-> "KeyError", origin |-> "facade",
                    id |-> Some(p.id)])
    ELSE Finish(s, [kind |-> "ok", exc |-> "", origin |-> "command", id |-> Some(p.id)])

\* the offset taken with the wrong sign of the clock
MatchedSignSlip(s, p, now) ==
    IF p.error THEN Raise(s, "ProtocolError")
    ELSE IF InTsQuery(s)
    THEN IF p.data # "ts"
         THEN Raise(s, "KeyError")
         ELSE Outer([s EXCEPT !.ts_diff = Some(2 * p.tsv + now), !.clock = now,
                              !.exchanged = TRUE],
                    [s.request EXCEPT !.ts = Some(p.tsv)])
    ELSE FacadeReturn([s EXCEPT !.exchanged = TRUE], p)

\* a _command that looks at "error" only in the response to the outer request
MatchedErrorLate(s, p, now) ==
    IF InTsQuery(s)
    THEN IF p.data # "ts"
         THEN Raise(s, "KeyError")
         ELSE Outer([s EXCEPT !.ts_diff = Some(2 * p.tsv - now), !.clock = now,
                              !.exchanged = TRUE],
                    [s.request EXCEPT !.ts = Some(p.tsv)])
    ELSE IF p.error THEN Raise(s, "ProtocolError")
    ELSE FacadeReturn([s EXCEPT !.exchanged = TRUE], p)

\* _command after _exchange returned p, and command() after _command returned
Matched(s, p, now) ==
    IF p.error THEN Raise(s, "ProtocolError")
    ELSE IF InTsQuery(s)
    THEN IF p.data # "ts"
         THEN Raise(s, "KeyError")
         ELSE Outer([s EXCEPT !.ts_diff = Some(2 * p.tsv - now), !.clock = now,
                              !.exchanged = TRUE],
                    [s.request EXCEPT !.ts = Some(p.tsv)])
    ELSE FacadeReturn([s EXCEPT !.exchanged = TRUE], p)

\* the task resumes from sock_recv with packet p
OnPacket(s, p, now) ==
    LET c == Classify(p, s.cur.id)
    IN IF c = "discard" THEN s
       ELSE IF c = "match" THEN Matched(s, p, now)
       ELSE Raise(s, RaisedBy(c))

\* a retry loop that makes one attempt too many
OnTimeoutOffByOne(s) ==
    IF transport = "udp" /\ s.attempt <= retry_count
    THEN [s EXCEPT !.attempt = s.attempt + 1, !.pc = "send"]
    ELSE Raise(s, "TimeoutError")

\* a retry loop that encrypts the request again for each attempt
OnTimeoutReencrypt(s) ==
    IF transport = "udp" /\ s.attempt < retry_count
    THEN [s EXCEPT !.attempt = s.attempt + 1, !.pc = "send",
                   !.cur.iv = FreshIV(s.ivc), !.ivc = s.ivc + 1]
    ELSE Raise(s, "TimeoutError")

\* a TcpClient that retries as UdpClient does
OnTimeoutRetriesTcp(s) ==
    IF s.attempt < retry_count
    THEN [s EXCEPT !.attempt = s.attempt + 1, !.pc = "send"]
    ELSE Raise(s, "TimeoutError")

\* asyncio.wait_for expires: UdpClient._exchange starts the next attempt, or
\* raises the last TimeoutError after retry_count attempts; TcpClient raises
OnTimeout(s) ==
    IF transport = "udp" /\ s.attempt < retry_count
    THEN [s EXCEPT !.attempt = s.attempt + 1, !.pc = "send"]
    ELSE Raise(s, "TimeoutError")

RecvErrors == IF transport = "tcp" THEN {"OSError", "NetworkError"} ELSE {"OSError"}

\* ------------------------------------------------------------- TCP framing
\* bytes are 0 .. Byte - 1
Byte == 256
HeaderSize == 2

\* struct.pack("<H", n)
Pack(n) == <<n % Byte, (n \div Byte) % Byte>>
\* the header read with the most significant byte first
UnpackBigEndian(h) == Byte * h[1] + h[2]
\* struct.unpack("<H", header)[0]
Unpack(h) == h[1] + Byte * h[2]

\* what _sendmsg hands to sock_sendall
Frame(data) == Pack(Len(data)) \o data

\* msgs: the payloads to write; nsent: how many _sendmsg has written; wire: the
\* bytes written and not read yet; eof: the peer has closed the stream; lost:
\* bytes were dropped when it closed; phase: where _recvmsg is ("idle": not
\* called, "header", "payload": in that _recvall); size, data: the locals of
\* _recvall; exc: what _recvmsg raised; received: the values _recvmsg returned;
\* base: the messages written before this connection was made; consumed: the
\* bytes sock_recv has returned on this connection; start: their number when
\* the last _recvmsg was called
NoStream == [msgs |-> <<>>, nsent |-> 0, wire |-> <<>>, eof |-> FALSE, lost |-> FALSE,
             phase |-> "idle", size |-> 0, data |-> <<>>, exc |-> "",
             received |-> <<>>, base |-> 0, consumed |-> 0, start |-> 0]

\* a _recvall that returns whatever it has read when the stream ends
RecvallNeverFails(data, size) == FALSE
\* _recvall after its loop: len(data) != size
RecvallFails(data, size) == Len(data) # size

\* _recvmsg returns the payload
Deliver(t, m) ==
    [t EXCEPT !.phase = "idle", !.size = 0, !.data = <<>>, !.received = Append(@, m)]

\* _recvall has left its loop (enough bytes, or an empty chunk) and _recvmsg
\* goes on: after the header it unpacks the size and reads the payload (a
\* _recvall of size 0 returns at once), after the payload it returns it
RecvallDone(t) ==
    IF RecvallFails(t.data, t.size) THEN [t EXCEPT !.exc = "NetworkError"]
    ELSE IF t.phase = "payload" THEN Deliver(t, t.data)
    ELSE IF Len(t.data) # HeaderSize THEN [t EXCEPT !.exc = "struct.error"]
    ELSE LET size == Unpack(t.data)
         IN IF size > 0 THEN [t EXCEPT !.phase = "payload", !.size = size, !.data = <<>>]
            ELSE IF RecvallFails(<<>>, 0) THEN [t EXCEPT !.exc = "NetworkError"]
            ELSE Deliver(t, <<>>)

\* _sendmsg writes the next message
TcpSendmsg ==
    /\ tcpio.nsent < Len(tcpio.msgs)
    /\ ~tcpio.eof
    /\ tcpio' = [tcpio EXCEPT !.nsent = @ + 1,
                              !.wire = @ \o Frame(tcpio.msgs[tcpio.nsent + 1])]
    /\ UNCHANGED <<client, aes, ctor, view, timer, ov>>

\* the peer closes the stream (or the connection is lost): the first k unread
\* bytes can still be read
TcpClose(k) ==
    /\ ~tcpio.eof
    /\ k \in 0..Len(tcpio.wire)
    /\ tcpio' = [tcpio EXCEPT !.eof = TRUE, !.lost = k < Len(tcpio.wire),
                              !.wire = SubSeq(@, 1, k)]
    /\ UNCHANGED <<client, aes, ctor, view, timer, ov>>

\* _recvmsg is called: _recvall(sock, 2) starts
TcpRecvmsg ==
    /\ tcpio.phase = "idle"
    /\ tcpio.exc = ""
    /\ tcpio' = [tcpio EXCEPT !.phase = "header", !.size = HeaderSize, !.data = <<>>,
                              !.start = tcpio.consumed]
    /\ UNCHANGED <<client, aes, ctor, view, timer, ov>>

\* sock_recv(sock, size - len(data)) returns k bytes
TcpChunk(k) ==
    /\ tcpio.phase \in {"header", "payload"}
    /\ tcpio.exc = ""
    /\ k >= 1
    /\ k <= tcpio.size - Len(tcpio.data)
    /\ k <= Len(tcpio.wire)
    /\ LET t == [tcpio EXCEPT !.data = @ \o SubSeq(tcpio.wire, 1, k),
                              !.wire = SubSeq(@, k + 1, Len(@)),
                              !.consumed = @ + k]
       IN tcpio' = IF Len(t.data) < t.size THEN t ELSE RecvallDone(t)
    /\ UNCHANGED <<client, aes, ctor, view, timer, ov>>

\* sock_recv returns b"": the stream has ended
TcpEof ==
    /\ tcpio.phase \in {"header", "payload"}
    /\ tcpio.exc = ""
    /\ tcpio.eof
    /\ tcpio.wire = <<>>
    /\ tcpio' = RecvallDone(tcpio)
    /\ UNCHANGED <<client, aes, ctor, view, timer, ov>>

\* the deadline of TcpClient._exchange expires while _recvall waits for bytes:
\* wait_for raises TimeoutError out of _recvmsg
TcpDeadline ==
    /\ tcpio.phase \in {"header", "payload"}
    /\ tcpio.exc = ""
    /\ tcpio' = [tcpio EXCEPT !.exc = "TimeoutError"]
    /\ UNCHANGED <<client, aes, ctor, view, timer, ov>>

\* _recvmsg has raised: command() runs _stop in its except clause, and the
\* next command makes a new connection with _start; what was written to the
\* old connection and not read is gone with it
TcpReconnect ==
    /\ tcpio.exc # ""
    /\ tcpio' = [tcpio EXCEPT !.exc = "", !.phase = "idle", !.size = 0, !.data = <<>>,
                              !.wire = <<>>, !.eof = FALSE, !.lost = FALSE,
                              !.base = tcpio.nsent, !.consumed = 0, !.start = 0]
    /\ UNCHANGED <<client, aes, ctor, view, timer, ov>>

\* the task is cancelled while _recvall waits: CancelledError passes the
\* except clause of command(), the socket stays as it is and the bytes read
\* for the unfinished message are dropped with the locals of _recvall
TcpCancel ==
    /\ tcpio.phase \in {"header", "payload"}
    /\ tcpio.exc = ""
    /\ tcpio' = [tcpio EXCEPT !.phase = "idle", !.size = 0, !.data = <<>>]
    /\ UNCHANGED <<client, aes, ctor, view, timer, ov>>

\* -------------------------------------------------------------- encryption
\* the block size of AES and of PKCS7(128), in bytes
BlockLen == 16
\* the key sizes algorithms.AES accepts, in bytes
KeyLens == {16, 24, 32}

RECURSIVE XorBits(_, _, _)
XorBits(a, b, n) ==
    IF n = 0 THEN 0 ELSE ((a + b) % 2) + 2 * XorBits(a \div 2, b \div 2, n - 1)
\* the exclusive or of two bytes, and of two blocks
Xor(a, b) == XorBits(a, b, 8)
XorBlock(x, y) == [i \in 1..BlockLen |-> Xor(x[i], y[i])]

\* The AES block transform stands as a keyed permutation of the 16-byte blocks
\* (rotate the block by one byte, add the key bytes and the position) and its
\* inverse: what CBC and the padding need of it
KeyByte(key, i) == key[((i - 1) % Len(key)) + 1]
AesEncryptBlock(key, b) ==
    [i \in 1..BlockLen |-> (b[(i % BlockLen) + 1] + KeyByte(key, i) + i) % Byte]
AesDecryptBlock(key, c) ==
    [j \in 1..BlockLen |->
        LET i == IF j = 1 THEN BlockLen ELSE j - 1
        IN (c[i] + 2 * Byte - KeyByte(key, i) - i) % Byte]

\* modes.CBC(iv): each plaintext block is xored with the ciphertext block
\* before it (the IV for the first) and encrypted
RECURSIVE CbcEncrypt(_, _, _)
CbcEncrypt(key, prev, p) ==
    IF p = <<>> THEN <<>>
    ELSE LET c == AesEncryptBlock(key, XorBlock(SubSeq(p, 1, BlockLen), prev))
         IN c \o CbcEncrypt(key, c, SubSeq(p, BlockLen + 1, Len(p)))
RECURSIVE CbcDecrypt(_, _, _)
CbcDecrypt(key, prev, c) ==
    IF c = <<>> THEN <<>>
    ELSE LET b == SubSeq(c, 1, BlockLen)
         IN XorBlock(AesDecryptBlock(key, b), prev)
                \o CbcDecrypt(key, b, SubSeq(c, BlockLen + 1, Len(c)))

\* padding.PKCS7(128).padder(): n bytes of value n, 1 <= n <= 16
Pkcs7Pad(m) ==
    LET n == BlockLen - (Len(m) % BlockLen) IN m \o [i \in 1..n |-> n]
\* padding.PKCS7(128).unpadder(): None stands for the ValueError of finalize()
Pkcs7Unpad(m) ==
    IF m = <<>> \/ Len(m) % BlockLen # 0 THEN None
    ELSE LET n == m[Len(m)]
         IN IF n < 1 \/ n > BlockLen \/ \E i \in (Len(m) - n + 1)..Len(m) : m[i] # n
            THEN None
            ELSE Some(SubSeq(m, 1, Len(m) - n))

\* _encrypt(msg) under the IV os.urandom(16) gave
Encrypt(key, msg, iv) == CbcEncrypt(key, iv, Pkcs7Pad(msg)) \o iv

\* a _decrypt that looks for the IV in front of the ciphertext
SplitBlobIvFirst(msg) ==
    [iv |-> SubSeq(msg, 1, BlockLen), body |-> SubSeq(msg, BlockLen + 1, Len(msg))]
\* iv = msg[-16:]; msg = msg[:-16]
SplitBlob(msg) ==
    [iv |-> SubSeq(msg, Len(msg) - BlockLen + 1, Len(msg)),
     body |-> SubSeq(msg, 1, Len(msg) - BlockLen)]

\* _decrypt(msg): None stands for the ValueError of modes.CBC (an IV of a
\* wrong size), of decryptor.finalize() (a ciphertext that is no whole number
\* of blocks) and of the unpadder
Decrypt(key, msg) ==
    IF Len(msg) < BlockLen THEN None
    ELSE LET s == SplitBlob(msg)
         IN IF Len(s.body) % BlockLen # 0 THEN None
            ELSE Pkcs7Unpad(CbcDecrypt(key, s.iv, s.body))

\* key: self._token; msg: the plaintext; blob: what _encrypt returned; plain:
\* what _decrypt returned for blob; phase: "in", "encrypted", "decrypted"
NoCrypt == [key |-> <<>>, msg |-> <<>>, iv |-> <<>>, blob |-> <<>>, plain |-> None,
            phase |-> "off"]

DoEncrypt(iv) ==
    /\ aes.phase = "in"
    /\ aes' = [aes EXCEPT !.iv = iv, !.blob = Encrypt(aes.key, aes.msg, iv),
                          !.phase = "encrypted"]
    /\ UNCHANGED <<client, tcpio, ctor, view, timer, ov>>

DoDecrypt ==
    /\ aes.phase = "encrypted"
    /\ aes' = [aes EXCEPT !.plain = Decrypt(aes.key, aes.blob), !.phase = "decrypted"]
    /\ UNCHANGED <<client, tcpio, ctor, view, timer, ov>>

\* ------------------------------------------------------------- constructor
\* a token string is the sequence of its characters' code points
Ch9 == 57
ChF == 70
ChLowA == 97
ChLowF == 102
\* the value of a hexadecimal digit, -1 for any other character
HexVal(c) ==
    IF c >= Ch0 /\ c <= Ch9 THEN c - Ch0
    ELSE IF c >= ChA /\ c <= ChF THEN c - ChA + 10
    ELSE IF c >= ChLowA /\ c <= ChLowF THEN c - ChLowA + 10
    ELSE -1

\* bytes.fromhex(s) for a string without white space: None stands for the
\* ValueError it raises on a character that is no hex digit and on an odd
\* number of digits
FromHex(s) ==
    IF \E i \in 1..Len(s) : HexVal(s[i]) < 0 THEN None
    ELSE IF Len(s) % 2 # 0 THEN None
    ELSE Some([i \in 1..(Len(s) \div 2) |-> 16 * HexVal(s[2 * i - 1]) + HexVal(s[2 * i])])

\* given: the token argument (None, or Some(string)); phase: "off", "new"
\* (not called yet), "created", "raised" (the constructor raised exc), "used"
\* (the first _encrypt built its cipher), "rejected" (algorithms.AES raised
\* exc); key: self._token
NoCtor == [given |-> None, phase |-> "off", key |-> None, exc |-> ""]

\* __init__: self._token = bytes.fromhex(token) if token else None
Create ==
    /\ ctor.phase = "new"
    /\ ctor' = IF ctor.given = None \/ Val(ctor.given) = <<>>
               THEN [ctor EXCEPT !.phase = "created", !.key = None]
               ELSE IF FromHex(Val(ctor.given)) = None
               THEN [ctor EXCEPT !.phase = "raised", !.exc = "ValueError"]
               ELSE [ctor EXCEPT !.phase = "created", !.key = FromHex(Val(ctor.given))]
    /\ UNCHANGED <<client, tcpio, aes, view, timer, ov>>

\* the first command of a client with a token: _encrypt builds
\* Cipher(algorithms.AES(self._token), ...), and AES takes keys of 16, 24 and
\* 32 bytes only
UseKey ==
    /\ ctor.phase = "created"
    /\ ctor.key # None
    /\ ctor' = IF Len(Val(ctor.key)) \in KeyLens
               THEN [ctor EXCEPT !.phase = "used"]
               ELSE [ctor EXCEPT !.phase = "rejected", !.exc = "ValueError"]
    /\ UNCHANGED <<client, tcpio, aes, view, timer, ov>>

\* -------------------------------------------------------------- State view
\* a value of the response data: the key is absent, or holds null or a number
Absent == [kind |-> "absent", n |-> 0]
Null == [kind |-> "null", n |-> 0]
Number(n) == [kind |-> "int", n |-> n]
\* self.data.get(key): None for an absent key and for null
Get(data, key) == IF data[key].kind = "int" THEN Some(data[key].n) ELSE None

\* what reading a property gives: None, a member of an enum, or an exception
ReturnsNone == [kind |-> "none", name |-> ""]
Returns(member) == [kind |-> "member", name |-> member]
Raises(exc) == [kind |-> "raise", name |-> exc]

\* a decoding that gives None for a value that is no member
DecodeLenient(enum, value) ==
    IF value = None \/ EnumLookup(enum, Val(value)) = None
    THEN ReturnsNone
    ELSE Returns(Val(EnumLookup(enum, Val(value))))

\* return None if value is None else Enum(value)
Decode(enum, value) ==
    IF value = None
    THEN ReturnsNone
    ELSE IF EnumLookup(enum, Val(value)) = None
    THEN Raises("ValueError")
    ELSE Returns(Val(EnumLookup(enum, Val(value))))

\* the properties of State that decode a key with an enum alone
EnumProps ==
    [model |-> [key |-> "model", enum |-> Model],
     mode |-> [key |-> "mode", enum |-> Mode],
     speed |-> [key |-> "speed", enum |-> Speed],
     sensitivity |-> [key |-> "sensitivity", enum |-> Sensitivity],
     moodlight |-> [key |-> "moodlight", enum |-> Moodlight],
     lights |-> [key |-> "all_light_off", enum |-> Lights],
     error |-> [key |-> "error", enum |-> Error],
     filter_type |-> [key |-> "filter_type", enum |-> FilterType],
     gas |-> [key |-> "gas", enum |-> Gas],
     timer_mode |-> [key |-> "timer_mode", enum |-> TimerMode]]
StateEnum(data, f) == Decode(EnumProps[f].enum, Get(data, EnumProps[f].key))

\* a quality that leaves the BioGS correction out
StateQualityUncorrected(data) == Decode(Quality, Get(data, "quality"))

\* State.quality: reads the model property first, whose ValueError passes on
StateQuality(data) ==
    IF Get(data, "quality") = None
    THEN ReturnsNone
    ELSE IF StateEnum(data, "model").kind = "raise"
    THEN StateEnum(data, "model")
    ELSE IF StateEnum(data, "model") = Returns("BioGS")
    THEN Decode(Quality, Some(Val(Get(data, "quality")) - 1))
    ELSE Decode(Quality, Get(data, "quality"))

Props == DOMAIN EnumProps \cup {"quality"}
Property(data, f) == IF f = "quality" THEN StateQuality(data) ELSE StateEnum(data, f)

\* the classes `except Exception` catches, among those a property raises
Exceptions == {"ValueError", "TypeError"}
\* a repr without the try around prop.fget
ReprUnguarded(data) ==
    IF \E f \in Props : Property(data, f).kind = "raise"
    THEN Raises("ValueError")
    ELSE [kind |-> "str", name |-> "State"]
\* Response.__repr__: the exception of a property becomes its text
Repr(data) ==
    IF \E f \in Props :
           Property(data, f).kind = "raise" /\ Property(data, f).name \notin Exceptions
    THEN Raises((CHOOSE f \in Props : Property(data, f).name \notin Exceptions).name)
    ELSE [kind |-> "str", name |-> "State"]

StateKeys == {EnumProps[f].key : f \in DOMAIN EnumProps} \cup {"quality"}
NoData == [k \in StateKeys |-> Absent]
\* view.phase: "off", "new" (State(data) made), "read" (one property was
\* read: field, got), "shown" (repr was taken after it: repr)
NoView ==
    [data |-> NoData, phase |-> "off", field |-> "", got |-> ReturnsNone,
     repr |-> ReturnsNone]

\* state.<f>
ReadProperty(f) ==
    /\ view.phase = "new"
    /\ view' = [view EXCEPT !.phase = "read", !.field = f, !.got = Property(view.data, f)]
    /\ UNCHANGED <<client, tcpio, aes, ctor, timer, ov>>

\* repr(state)
ShowRepr ==
    /\ view.phase = "read"
    /\ view' = [view EXCEPT !.phase = "shown", !.repr = Repr(view.data)]
    /\ UNCHANGED <<client, tcpio, aes, ctor, timer, ov>>

\* ---------------------------------------------------------------- deadline
\* UdpClient.timeout, TcpClient.timeout: seconds; the clock of the deadline
\* advances in steps of one second
UdpTimeout == 2
TcpTimeout == 5
TimeoutOf(tr) == IF tr = "udp" THEN UdpTimeout ELSE TcpTimeout
\* the attempts UdpClient._exchange and TcpClient._exchange make
AttemptsOf(tr) == IF tr = "udp" THEN retry_count ELSE 1

\* timer.phase: "off", "send" (wait_for has armed the deadline of an attempt,
\* _sendmsg is next), "recv" (the loop of Client._exchange waits in _recvmsg),
\* "done" (command returned), "failed" (command raised).  exch counts the
\* exchanges of the command, attempt the attempts of the exchange, elapsed
\* the seconds since the deadline of the attempt was armed, datagrams the
\* messages written and spent the seconds gone in the exchange, discarded the
\* packets the command received and ignored
NoTimer ==
    [phase |-> "off", exch |-> 0, attempt |-> 0, elapsed |-> 0, datagrams |-> 0,
     spent |-> 0, discarded |-> 0]
\* command(): the timestamp query comes first when a token is configured
\* and no clock offset is known
ExchangesOf(tok) == IF tok = "none" THEN 1 ELSE 2
\* wait_for(super()._exchange(request_id, data), self.timeout)
Arm(t) == [t EXCEPT !.phase = "send", !.attempt = t.attempt + 1, !.elapsed = 0]

\* a loop that runs each _recvmsg under a deadline of its own
AfterDiscardRestarts(t) == [t EXCEPT !.discarded = t.discarded + 1, !.elapsed = 0]
\* the loop of Client._exchange passes over a packet: the deadline is that of
\* the wait_for around the loop
AfterDiscard(t) == [t EXCEPT !.discarded = t.discarded + 1]

TimedSendmsg ==
    /\ timer.phase = "send"
    /\ timer' = [timer EXCEPT !.phase = "recv", !.datagrams = timer.datagrams + 1]
    /\ UNCHANGED <<client, tcpio, aes, ctor, view, ov>>

\* one second goes by while the task waits in sock_recv
Tick ==
    /\ timer.phase = "recv"
    /\ timer.elapsed < TimeoutOf(transport)
    /\ timer' = [timer EXCEPT !.elapsed = timer.elapsed + 1, !.spent = timer.spent + 1]
    /\ UNCHANGED <<client, tcpio, aes, ctor, view, ov>>

TimedDiscard(limit) ==
    /\ timer.phase = "recv"
    /\ timer.discarded < limit
    /\ timer' = AfterDiscard(timer)
    /\ UNCHANGED <<client, tcpio, aes, ctor, view, ov>>

\* the response to the request arrives: the next exchange, or the return
TimedMatch ==
    /\ timer.phase = "recv"
    /\ timer' = IF timer.exch < ExchangesOf(token)
                THEN Arm([timer EXCEPT !.exch = timer.exch + 1, !.attempt = 0,
                                       !.datagrams = 0, !.spent = 0])
                ELSE [timer EXCEPT !.phase = "done"]
    /\ UNCHANGED <<client, tcpio, aes, ctor, view, ov>>

\* the deadline expires: the next attempt of UdpClient._exchange, or the raise
Expire ==
    /\ timer.phase = "recv"
    /\ timer.elapsed = TimeoutOf(transport)
    /\ timer' = IF timer.attempt < AttemptsOf(transport)
                THEN Arm(timer)
                ELSE [timer EXCEPT !.phase = "failed"]
    /\ UNCHANGED <<client, tcpio, aes, ctor, view, ov>>

\* ------------------------------------------------------ overlapping commands
\* Two tasks call a facade operation of one client and run interleaved: a
\* task gives way to the other at each await (sock_connect, sock_sendall,
\* sock_recv) and nowhere else.
Tasks == {1, 2}
\* a task: pc is "idle" (not called yet), "connect", "send", "recv", "done"
\* (returned ret) or "failed" (raised exc); id: request["id"] of the exchange
\* it is in; tsq: that exchange is its timestamp query; ids: the ids
\* _next_id gave it
NoTask ==
    [pc |-> "idle", id |-> None, tsq |-> FALSE, attempt |-> 0, ids |-> {},
     ret |-> None, exc |-> ""]
\* the session the tasks share: sock is "none", "made" (_start has stored the
\* socket and awaits sock_connect) or "open"; idc is self._id; synced: the
\* clock offset is set; net: the ids of the responses on their way
NoOverlap ==
    [sock |-> "none", idc |-> 0, synced |-> FALSE, net |-> {},
     task |-> [t \in Tasks |-> NoTask]]

\* _stop
OvStop(o) == [o EXCEPT !.sock = "none", !.synced = FALSE]
\* except Exception: self._stop(); raise
OvRaise(o, t, exc) ==
    [OvStop(o) EXCEPT !.task[t].pc = "failed",
                      !.task[t].exc = IF o.sock = "none" THEN "AssertionError" ELSE exc]

\* a _next_id that leaves the counter as it was
TakeIdStale(o, t) ==
    [o EXCEPT !.task[t].id = Some(NextIdValue(o.idc)),
              !.task[t].ids = @ \cup {NextIdValue(o.idc)},
              !.task[t].attempt = 1, !.task[t].pc = "send"]
\* request["id"] = self._next_id(), then _command up to _sendmsg: no await
\* between reading the counter and incrementing it
TakeId(o, t) ==
    [o EXCEPT !.idc = NextIdCounter(o.idc),
              !.task[t].id = Some(NextIdValue(o.idc)),
              !.task[t].ids = @ \cup {NextIdValue(o.idc)},
              !.task[t].attempt = 1, !.task[t].pc = "send"]

\* command() after the socket check: the timestamp query, or the request
OvProceed(o, t) ==
    LET q == token # "none" /\ ~o.synced
    IN TakeId([o EXCEPT !.task[t].tsq = q], t)

\* the task calls command(): _start when self._sock is None
OvCall(t) ==
    /\ ov.task[t].pc = "idle"
    /\ ov' = IF ov.sock = "none"
             THEN [ov EXCEPT !.sock = "made", !.task[t].pc = "connect"]
             ELSE OvProceed(ov, t)
    /\ UNCHANGED <<client, tcpio, aes, ctor, view, timer>>

\* sock_connect returns, or raises (always so when the other task has closed
\* the socket meanwhile)
OvConnect(t, ok) ==
    /\ ov.task[t].pc = "connect"
    /\ ok => ov.sock = "made"
    /\ ov' = IF ok THEN OvProceed([ov EXCEPT !.sock = "open"], t)
             ELSE OvRaise(ov, t, "OSError")
    /\ UNCHANGED <<client, tcpio, aes, ctor, view, timer>>

\* _sendmsg writes the request; the response of the device is on its way
\* (answered) or never comes
OvSend(t, answered) ==
    /\ ov.task[t].pc = "send"
    /\ ov.sock = "open"
    /\ ov' = [ov EXCEPT !.task[t].pc = "recv",
                        !.net = IF answered THEN @ \cup {Val(ov.task[t].id)} ELSE @]
    /\ UNCHANGED <<client, tcpio, aes, ctor, view, timer>>

\* _sendmsg raises: its assertion when there is no socket, OSError of the
\* socket otherwise (a socket that is not connected yet, or a write error)
OvSendFail(t) ==
    /\ ov.task[t].pc = "send"
    /\ ov' = OvRaise(ov, t, "OSError")
    /\ UNCHANGED <<client, tcpio, aes, ctor, view, timer>>

\* the response with id i comes out of this task's sock_recv
OvRecv(t, i) ==
    /\ ov.task[t].pc = "recv"
    /\ ov.sock = "open"
    /\ i \in ov.net
    /\ LET o == [ov EXCEPT !.net = @ \ {i}]
       IN ov' = IF ~IdMatches(i, Val(ov.task[t].id)) THEN o
                ELSE IF ov.task[t].tsq
                THEN TakeId([o EXCEPT !.synced = TRUE, !.task[t].tsq = FALSE], t)
                ELSE [o EXCEPT !.task[t].pc = "done", !.task[t].ret = Some(i)]
    /\ UNCHANGED <<client, tcpio, aes, ctor, view, timer>>

\* _recvmsg raises
OvRecvFail(t) ==
    /\ ov.task[t].pc = "recv"
    /\ ov' = OvRaise(ov, t, "OSError")
    /\ UNCHANGED <<client, tcpio, aes, ctor, view, timer>>

\* the deadline of the attempt expires
OvTimeout(t) ==
    /\ ov.task[t].pc = "recv"
    /\ ov' = IF ov.task[t].attempt < AttemptsOf(transport)
             THEN [ov EXCEPT !.task[t].attempt = @ + 1, !.task[t].pc = "send"]
             ELSE OvRaise(ov, t, "TimeoutError")
    /\ UNCHANGED <<client, tcpio, aes, ctor, view, timer>>

\* ------------------------------------------------------------------ actions
\* the with statement swallows the exception that leaves the block when
\* __exit__ returns a true value
Truthy(o) == o # None /\ Val(o) = TRUE
\* an __exit__ that returns True
ExitReturnsTrue == Some(TRUE)
\* __exit__: return None
ExitReturn == None
NoExit == [left |-> FALSE, exc |-> FALSE, suppressed |-> FALSE]

\* the client as __init__ leaves it
Constructed ==
    /\ idc = id0
    /\ sock = "none"
    /\ ts_diff = None
    /\ ivc = 0
    /\ clock = 0
    /\ pc = "idle"
    /\ facade = "none"
    /\ args = NoArgs
    /\ request = NoRequest
    /\ cur = NoMsg
    /\ attempt = 0
    /\ sent = <<>>
    /\ result = NoResult
    /\ lastRecv = NoRecv
    /\ didConnect = FALSE
    /\ hadOffset = FALSE
    /\ connIds = <<>>
    /\ exchanged = FALSE
    /\ withExit = NoExit
    /\ ncalls = 0

Init ==
    /\ transport \in {"udp", "tcp"}
    /\ token \in {"none", "valid", "badlen"}
    /\ id0 \in {0, IdRange - 1}
    /\ Constructed
    /\ tcpio = NoStream
    /\ aes = NoCrypt
    /\ ctor = NoCtor
    /\ view = NoView
    /\ timer = NoTimer
    /\ ov = NoOverlap

\* get_state(), set_state(...), get_info() up to the first await
Call(op, a, now) ==
    /\ pc = "idle"
    /\ ncalls < MaxCalls
    /\ ncalls' = ncalls + 1
    /\ withExit' = NoExit
    /\ facade' = op
    /\ args' = a
    /\ sent' = <<>>
    /\ lastRecv' = NoRecv
    /\ hadOffset' = (ts_diff # None)
    /\ IF op = "set_state" /\ SetStateError(a) # None
       THEN /\ result' = [kind |-> "raise", exc |-> "ValueError",
                          origin |-> "validation", id |-> None]
            /\ didConnect' = FALSE
            /\ UNCHANGED <<sock, ts_diff, clock, ivc, idc, connIds, exchanged,
                           pc, request, cur, attempt>>
       ELSE IF sock = "none"
       THEN \* _start: the socket is created, then sock_connect awaited
            /\ didConnect' = TRUE
            /\ Set([St EXCEPT !.sock = "open", !.pc = "connect",
                              !.request = FacadeRequest(op, a)])
       ELSE /\ didConnect' = FALSE
            /\ Set(Proceed(St, FacadeRequest(op, a), now))
    /\ UNCHANGED <<config, bytesView>>

\* a facade call on a client without a socket whose _start fails at
\* _create_socket (socket.socket() raises OSError, no descriptor is left):
\* self._sock is still None when the except clause of command() runs _stop
CreateFail(op, a) ==
    /\ pc = "idle"
    /\ ncalls < MaxCalls
    /\ sock = "none"
    /\ ~(op = "set_state" /\ SetStateError(a) # None)
    /\ ncalls' = ncalls + 1
    /\ withExit' = NoExit
    /\ facade' = op
    /\ args' = a
    /\ sent' = <<>>
    /\ lastRecv' = NoRecv
    /\ hadOffset' = (ts_diff # None)
    /\ didConnect' = TRUE
    /\ Set(Raise(St, "OSError"))
    /\ UNCHANGED <<config, bytesView>>

ConnectOk(now) ==
    /\ pc = "connect"
    /\ Set(Proceed(St, request, now))
    /\ UNCHANGED <<config, bytesView, facade, args, sent, hist, withExit, ncalls>>
    /\ lastRecv' = NoRecv

ConnectFail ==
    /\ pc = "connect"
    /\ Set(Raise(St, "OSError"))
    /\ UNCHANGED <<config, bytesView, facade, args, sent, hist, withExit, ncalls>>
    /\ lastRecv' = NoRecv

\* _sendmsg wrote the message
SendOk ==
    /\ pc = "send"
    /\ sock = "open"
    /\ sent' = Append(sent, cur)
    /\ pc' = "recv"
    /\ lastRecv' = NoRecv
    /\ UNCHANGED <<config, bytesView, facade, args, hist, withExit, ncalls,
                   sock, ts_diff, clock, ivc, idc, connIds, exchanged,
                   request, cur, attempt, result>>

\* _sendmsg raised (always so on a closed socket)
SendFail ==
    /\ pc = "send"
    /\ Set(Raise(St, "OSError"))
    /\ UNCHANGED <<config, bytesView, facade, args, sent, hist, withExit, ncalls>>
    /\ lastRecv' = NoRecv

\* _recvmsg returned packet p and the loop of _exchange took its turn on it
Recv(p, now) ==
    /\ pc = "recv"
    /\ lastRecv' = Recorded(p, cur.id)
    /\ Set(OnPacket(St, p, now))
    /\ UNCHANGED <<config, bytesView, facade, args, sent, didConnect, hadOffset, withExit, ncalls>>

RecvFail(exc) ==
    /\ pc = "recv"
    /\ Set(Raise(St, exc))
    /\ UNCHANGED <<config, bytesView, facade, args, sent, hist, withExit, ncalls>>
    /\ lastRecv' = NoRecv

\* the deadline of asyncio.wait_for expires while the task waits in sock_recv
\* or, on a stream socket whose send buffer is full, in sock_sendall (on a
\* closed socket sock_sendall raises at once and never waits)
Timeout ==
    /\ pc = "recv" \/ (pc = "send" /\ transport = "tcp" /\ sock = "open")
    /\ Set(OnTimeout(St))
    /\ UNCHANGED <<config, bytesView, facade, args, sent, hist, withExit, ncalls>>
    /\ lastRecv' = NoRecv

\* an __exit__ that disconnects the session as _stop does
ExitStops(exc) ==
    /\ pc = "idle"
    /\ sock' = "none"
    /\ ts_diff' = None
    /\ connIds' = <<>>
    /\ exchanged' = FALSE
    /\ withExit' = [left |-> TRUE, exc |-> exc,
                    suppressed |-> exc /\ Truthy(ExitReturn)]
    /\ UNCHANGED <<config, bytesView, facade, args, sent, lastRecv, hist, ncalls,
                   clock, ivc, idc, pc, request, cur, attempt, result>>

\* __exit__ of the with block, left normally or (exc) through an exception
Exit(exc) ==
    /\ pc = "idle"
    /\ sock' = IF sock = "none" THEN "none" ELSE "closed"
    /\ exchanged' = FALSE
    /\ withExit' = [left |-> TRUE, exc |-> exc,
                    suppressed |-> exc /\ Truthy(ExitReturn)]
    /\ UNCHANGED <<config, bytesView, facade, args, sent, lastRecv, hist, ncalls,
                   ts_diff, clock, ivc, idc, connIds, pc, request, cur, attempt, result>>

Next ==
    \/ \E op \in Facades, now \in Clock :
           \E a \in IF op = "set_state" THEN CoreArgs ELSE {NoArgs} : Call(op, a, now)
    \/ \E op \in Facades :
           \E a \in IF op = "set_state" THEN CoreArgs ELSE {NoArgs} : CreateFail(op, a)
    \/ \E now \in Clock : ConnectOk(now)
    \/ ConnectFail
    \/ SendOk
    \/ SendFail
    \/ \E p \in Packets : \E now \in ClockOn(p) : Recv(p, now)
    \/ \E exc \in RecvErrors : RecvFail(exc)
    \/ Timeout
    \/ \E exc \in BOOLEAN : Exit(exc)

Spec == Init /\ [][Next]_vars

\* The task is cancelled while it waits in sock_sendall or sock_recv:
\* CancelledError is raised at the await.  It is a BaseException: neither the
\* except clause of Client._exchange nor that of UdpClient._exchange nor
\* `except Exception` of command() catches it (wait_for cancels the inner
\* coroutine and raises it on), so it leaves command() with no _stop
Cancelled(s) ==
    Finish(s, [kind |-> "raise", exc |-> "CancelledError", origin |-> "command",
               id |-> None])

Cancel ==
    /\ pc \in {"send", "recv"}
    /\ Set(Cancelled(St))
    /\ UNCHANGED <<config, bytesView, facade, args, sent, hist, withExit, ncalls>>
    /\ lastRecv' = NoRecv

\* the client whose task may be cancelled
NextCancel ==
    \/ Next
    \/ Cancel

SpecCancel == Init /\ [][NextCancel]_vars

\* The client under a device that answers every request at once and well:
\* set_state is called with every argument tuple of SetStateArgs
GoodReplies == {Reply(cur.id, FALSE, "ts", t) : t \in TsValues}

NextFacade ==
    \/ \E op \in Facades, now \in Clock :
           \E a \in IF op = "set_state" THEN SetStateArgs ELSE {NoArgs} : Call(op, a, now)
    \/ \E now \in Clock : ConnectOk(now)
    \/ SendOk
    \/ \E p \in GoodReplies, now \in Clock : Recv(p, now)
    \/ \E exc \in BOOLEAN : Exit(exc)

SpecFacade == Init /\ [][NextFacade]_vars

\* The byte stream of a TCP connection, written by _sendmsg and read by
\* _recvmsg in chunks of every size
MaxMsgs == 2
\* the sizes sock_recv is seen to return: every size up to MaxChunk, and all
\* the bytes asked for, or all but one
MaxChunk == 3
LongLen == 258
Long == [i \in 1..LongLen |-> IF i = 1 THEN 1 ELSE 0]
\* payloads: b"", one byte, two bytes that read as a header, three bytes
ShortPayloads == {<<>>, <<7>>, <<1, 0>>, <<0, 1, 255>>}
MsgSeqs ==
    UNION {[1..n -> ShortPayloads] : n \in 0..MaxMsgs}
    \cup {<<Long>>, <<Long, <<7>>>>, <<<<1, 0>>, Long>>}
ChunkSizes ==
    (1..MaxChunk) \cup {tcpio.size - Len(tcpio.data) - 1, tcpio.size - Len(tcpio.data)}

InitFraming ==
    /\ transport = "tcp"
    /\ token = "none"
    /\ id0 = 0
    /\ Constructed
    /\ \E m \in MsgSeqs : tcpio = [NoStream EXCEPT !.msgs = m]
    /\ aes = NoCrypt
    /\ ctor = NoCtor
    /\ view = NoView
    /\ timer = NoTimer
    /\ ov = NoOverlap

NextFraming ==
    \/ TcpSendmsg
    \/ \E k \in 0..Len(tcpio.wire) : TcpClose(k)
    \/ TcpRecvmsg
    \/ \E k \in ChunkSizes : TcpChunk(k)
    \/ TcpEof

SpecFraming == InitFraming /\ [][NextFraming]_vars

\* The stream of a TcpClient over its commands: an exchange may be stopped
\* while it reads, by its deadline, by the end of the stream or by the
\* cancellation of its task, and later commands go on to read
StreamSeqs == UNION {[1..n -> ShortPayloads] : n \in 1..MaxMsgs}
InitStream ==
    /\ transport = "tcp"
    /\ token = "none"
    /\ id0 = 0
    /\ Constructed
    /\ \E m \in StreamSeqs : tcpio = [NoStream EXCEPT !.msgs = m]
    /\ aes = NoCrypt
    /\ ctor = NoCtor
    /\ view = NoView
    /\ timer = NoTimer
    /\ ov = NoOverlap

NextStream ==
    \/ NextFraming
    \/ TcpDeadline
    \/ TcpReconnect
    \/ TcpCancel

SpecStream == InitStream /\ [][NextStream]_vars

\* A message encrypted and decrypted again under one key
MaxBlocks == 2
Fill(n, f, g) == [i \in 1..n |-> (f + g * i) % Byte]
MsgLens == {n \in {k * BlockLen + d : k \in 0..MaxBlocks, d \in {-1, 0, 1}} : n >= 0}
\* byte strings: constant ones (of zeros, of bytes that read as padding, of
\* 255s) and counting ones
Msgs == {Fill(n, f, g) : n \in MsgLens, f \in {0, 1, BlockLen, 255}, g \in {0, 1}}
Keys == {Fill(n, f, 37) : n \in KeyLens, f \in {0, 200}}
IVs == {Fill(BlockLen, 0, 0), Fill(BlockLen, 250, 1)}

InitCrypto ==
    /\ transport = "udp"
    /\ token = "valid"
    /\ id0 = 0
    /\ Constructed
    /\ tcpio = NoStream
    /\ \E k \in Keys, m \in Msgs : aes = [NoCrypt EXCEPT !.key = k, !.msg = m, !.phase = "in"]
    /\ ctor = NoCtor
    /\ view = NoView
    /\ timer = NoTimer
    /\ ov = NoOverlap

NextCrypto ==
    \/ \E iv \in IVs : DoEncrypt(iv)
    \/ DoDecrypt

SpecCrypto == InitCrypto /\ [][NextCrypto]_vars

\* The constructor called with token strings: TEST_TOKEN of the tests
\* ("0123456789ABCDEF0123456789ABCDEF"), in upper and lower case, cut or
\* repeated to every length up to MaxDigits, and with one character replaced
\* by "x"
MaxDigits == 64
TokenDigits == 32
ChX == 120
HexChar(d, upper) ==
    IF d < 10 THEN Ch0 + d ELSE IF upper THEN ChA + d - 10 ELSE ChLowA + d - 10
TestToken(n, upper) == [i \in 1..n |-> HexChar((i - 1) % 16, upper)]
Tokens ==
    {None}
    \cup {Some(TestToken(n, u)) : n \in 0..MaxDigits, u \in BOOLEAN}
    \cup {Some([TestToken(TokenDigits, TRUE) EXCEPT ![p] = ChX]) : p \in 1..TokenDigits}

InitCreate ==
    /\ transport = "udp"
    /\ token = "none"
    /\ id0 = 0
    /\ Constructed
    /\ tcpio = NoStream
    /\ aes = NoCrypt
    /\ \E t \in Tokens : ctor = [NoCtor EXCEPT !.given = t, !.phase = "new"]
    /\ view = NoView
    /\ timer = NoTimer
    /\ ov = NoOverlap

NextCreate ==
    \/ Create
    \/ UseKey

SpecCreate == InitCreate /\ [][NextCreate]_vars

\* State views of response data: the model key and one more key at a time
\* hold every value of -1..MaxWire, or null, or are absent
MaxWire == 10
WireValues == {Absent, Null} \cup {Number(n) : n \in -1..MaxWire}
ModelValues == {Absent, Null} \cup {Number(n) : n \in 0..4}
Datas ==
    {[NoData EXCEPT !["model"] = m, ![k] = v] :
         m \in ModelValues, k \in StateKeys \ {"model"}, v \in WireValues}
    \cup {[NoData EXCEPT !["model"] = v] : v \in WireValues}

InitView ==
    /\ transport = "udp"
    /\ token = "none"
    /\ id0 = 0
    /\ Constructed
    /\ tcpio = NoStream
    /\ aes = NoCrypt
    /\ ctor = NoCtor
    /\ \E d \in Datas : view = [NoView EXCEPT !.data = d, !.phase = "new"]
    /\ timer = NoTimer
    /\ ov = NoOverlap

NextView ==
    \/ \E f \in Props : ReadProperty(f)
    \/ ShowRepr

SpecView == InitView /\ [][NextView]_vars

\* One command under the clock of its deadlines, on either transport, with
\* and without a token; up to MaxDiscarded packets arrive that the loop
\* passes over
MaxDiscarded == 3
InitDeadline ==
    /\ transport \in {"udp", "tcp"}
    /\ token \in {"none", "valid"}
    /\ id0 = 0
    /\ Constructed
    /\ tcpio = NoStream
    /\ aes = NoCrypt
    /\ ctor = NoCtor
    /\ view = NoView
    /\ timer = Arm([NoTimer EXCEPT !.exch = 1])
    /\ ov = NoOverlap

NextDeadline ==
    \/ TimedSendmsg
    \/ Tick
    \/ TimedDiscard(MaxDiscarded)
    \/ TimedMatch
    \/ Expire

SpecDeadline == InitDeadline /\ [][NextDeadline]_vars

\* Two tasks on one client, on either transport, with and without a token
InitOverlap ==
    /\ transport \in {"udp", "tcp"}
    /\ token \in {"none", "valid"}
    /\ id0 = 0
    /\ Constructed
    /\ tcpio = NoStream
    /\ aes = NoCrypt
    /\ ctor = NoCtor
    /\ view = NoView
    /\ timer = NoTimer
    /\ ov = NoOverlap

NextOverlap ==
    \E t \in Tasks :
        \/ OvCall(t)
        \/ \E ok \in BOOLEAN : OvConnect(t, ok)
        \/ \E answered \in BOOLEAN : OvSend(t, answered)
        \/ OvSendFail(t)
        \/ \E i \in ov.net : OvRecv(t, i)
        \/ OvRecvFail(t)
        \/ OvTimeout(t)

SpecOverlap == InitOverlap /\ [][NextOverlap]_vars

\* ------------------------------------------------------------------ claims
\* a command ended by raising out of command() after _stop
TornDown(res) ==
    res.kind = "raise" /\ res.origin = "command" /\ res.exc # "ProtocolError"

\* the number of times the request with this id was written to the socket
Transmissions(log, id) == Cardinality({i \in 1..Len(log) : log[i].id = id})

\* the command in progress has sent no timestamp query and is not sending one
NoTsQuery ==
    /\ \A i \in 1..Len(sent) : sent[i].cmd # CmdTs
    /\ pc \in {"send", "recv"} => cur.cmd # CmdTs

\* the first exchange of the command in progress is a timestamp query
FirstIsTsQuery ==
    IF sent # <<>> THEN sent[1].cmd = CmdTs
    ELSE pc \in {"send", "recv"} => cur.cmd = CmdTs

\* C1: in the correlation loop a response with another id than the request's
\* is discarded and the loop keeps receiving; the loop ends only on a response
\* with the matching id, on a transport failure or when the deadline expires.
C1_LoopEndsOnlyOnMatchFailureOrDeadline ==
    [][pc = "recv" =>
          /\ lastRecv'.kind \in {"stale", "mismatch"} =>
                 pc' = "recv" /\ cur' = cur /\ UNCHANGED <<sock, ts_diff, result>>
          /\ pc' # "recv" =>
                 \/ lastRecv'.kind = "match"
                 \/ pc' = "idle" /\ result'.exc \in {"OSError", "NetworkError", "TimeoutError"}
                 \/ pc' = "send" /\ attempt' = attempt + 1]_vars

\* C2: a matched response with a truthy error makes command raise
\* ProtocolError with the socket and the clock offset left as they were; the
\* next command runs no connect step and, when the offset was known, no
\* timestamp query.
C2_ProtocolErrorKeepsSession ==
    [][/\ pc # "idle" /\ pc' = "idle" /\ result'.exc = "ProtocolError" =>
              sock' = "open" /\ sock' = sock /\ ts_diff' = ts_diff
       /\ pc' # "idle" /\ result'.exc = "ProtocolError" =>
              ~didConnect' /\ (hadOffset' => NoTsQuery')]_vars

C2_Witness ==
    /\ result.exc = "ProtocolError"
    /\ pc = "recv"
    /\ hadOffset
    /\ token = "valid"
    /\ sock = "open"

\* C3: every failure of command other than ProtocolError closes the socket,
\* clears the clock offset and reaches the caller as it was raised; the session
\* is then disconnected, and the next command connects and (with a token)
\* starts with the timestamp query.
C3_FailureTearsDown ==
    [][/\ (pc # "idle" \/ ncalls' = ncalls + 1) /\ pc' = "idle" /\ TornDown(result') =>
              sock' = "none" /\ ts_diff' = None /\ result'.exc # "AssertionError"
       /\ pc' = "idle" /\ TornDown(result') => sock' = "none" /\ ts_diff' = None
       /\ pc' # "idle" /\ TornDown(result') =>
              didConnect' /\ (token # "none" => FirstIsTsQuery')]_vars

C3_Witness ==
    /\ result.exc = "TimeoutError"
    /\ token = "valid"
    /\ pc = "recv"
    /\ didConnect
    /\ cur.cmd = CmdTs
    /\ ncalls = 2

\* C4: a received blob that is no JSON or has no usable id (a JSON value that
\* is no object and bytes that are no text included) is discarded: the loop
\* keeps waiting, no error reaches the caller, socket and offset stay.
C4_MalformedPacketNeverEndsSession ==
    [][pc = "recv" /\ lastRecv'.kind \in {"badutf8", "notjson", "nonobject", "noid"} =>
          pc' = "recv" /\ UNCHANGED <<sock, ts_diff, result>>]_vars

\* what C5 says of the messages the command in progress has sent
C5_Sent ==
    (token # "none" /\ ~hadOffset /\ \E k \in 1..Len(sent) : sent[k].cmd # CmdTs) =>
        LET k == CHOOSE k \in 1..Len(sent) :
                     sent[k].cmd # CmdTs /\ \A i \in 1..(k - 1) : sent[i].cmd = CmdTs
        IN /\ k > 1
           /\ \A i \in 1..(k - 1) : sent[i].id = sent[k].id - 1
           /\ \A j \in k..Len(sent) : sent[j].cmd # CmdTs
           /\ \E t \in TsValues : sent[k].ts = Some(t)

\* C5: with a token and no clock offset, a command runs one timestamp query
\* (cmd 9) to its end before the outer request is sent, stores
\* offset = remote ts - local clock, and sends the outer request with the
\* reported ts itself and with the id that follows the query's id.
C5_TimestampQueryFirst ==
    [][/\ (/\ pc = "recv" /\ cur.cmd = CmdTs
           /\ lastRecv'.kind = "match" /\ ~lastRecv'.error /\ lastRecv'.data = "ts") =>
              /\ ts_diff' = Some(2 * lastRecv'.tsv - clock')
              /\ pc' = "send"
              /\ cur'.cmd = FacadeCmd(facade)
              /\ cur'.ts = Some(lastRecv'.tsv)
              /\ cur'.id = cur.id + 1
       /\ C5_Sent']_vars

C5_Witness ==
    /\ token = "valid"
    /\ ~hadOffset
    /\ result.kind = "ok"
    /\ pc = "idle"
    /\ Len(sent) >= 2
    /\ ts_diff = Some(2 * 7 - 1)
    /\ sent[Len(sent)].ts = Some(7)

\* C6: on UdpClient an exchange whose attempts all time out has written the
\* request exactly retry_count times when it raises the timeout, and that
\* failure closes the socket and clears the clock offset.
C6_UdpRetriesThenTimeout ==
    [][transport = "udp" =>
          /\ pc = "recv" /\ pc' = "idle" /\ result'.exc = "TimeoutError" =>
                 /\ Transmissions(sent, cur.id) = retry_count
                 /\ sock' = "none" /\ ts_diff' = None
          /\ \A i \in 1..Len(sent') : Transmissions(sent', sent'[i].id) <= retry_count]_vars

C6_Witness ==
    /\ transport = "udp"
    /\ pc = "idle"
    /\ result.exc = "TimeoutError"
    /\ Len(sent) = retry_count
    /\ sock = "none"

\* the messages sent under one id are the same bytes
C7_SameBytes ==
    \A i, j \in 1..Len(sent) : sent[i].id = sent[j].id => sent[i] = sent[j]

\* C7: a UDP retry writes the bytes of the first attempt again: between the
\* attempts of one exchange the request, its id, the id counter, the timestamp
\* and the clock offset stay, and no other request is made.
C7_UdpRetryResendsSameBytes ==
    [][transport = "udp" =>
          /\ pc = "recv" /\ pc' = "send" /\ attempt' = attempt + 1 =>
                 cur' = cur /\ request' = request /\ UNCHANGED <<idc, ivc, ts_diff, clock>>
          /\ C7_SameBytes']_vars

C7_Witness ==
    /\ transport = "udp"
    /\ token = "valid"
    /\ Len(sent) >= 4
    /\ sent[1] = sent[2]
    /\ sent[3] = sent[4]
    /\ sent[3].ts # None
    /\ sent[3].enc

\* the argument tuples C8 calls out of range
InRange(o, lo, hi) == o = None \/ Val(o) \in lo..hi
ClaimInvalid(a) ==
    \/ ~InRange(a.filter_life, 0, 525600)
    \/ ~InRange(a.filter_timer, 0, 525600)
    \/ ~InRange(a.timer, 0, 1440)
    \/ a.color # None /\ ~(Val(a.color) \in [1..9 -> 0..40])
    \/ a.schedule # None /\ ~(Val(a.schedule) \in [1..24 -> (48..53) \cup {65}])

\* C8: set_state with filter_life or filter_timer outside 0..525600, timer
\* outside 0..1440, a color that has not 9 elements or has one outside 0..40,
\* or a schedule that has not 24 characters or has one other than 0-5 and A
\* raises ValueError before anything else happens: no connect, no send, no id
\* taken, socket, clock offset and id counter as before.
C8_InvalidArgumentsRaiseBeforeNetwork ==
    [][ncalls' = ncalls + 1 /\ facade' = "set_state" /\ ClaimInvalid(args') =>
          /\ result'.kind = "raise" /\ result'.exc = "ValueError"
          /\ pc' = "idle" /\ sent' = <<>> /\ ~didConnect'
          /\ UNCHANGED <<sock, ts_diff, idc, ivc, connIds>>]_vars

C8_Witness ==
    /\ result.exc = "ValueError"
    /\ result.origin = "validation"
    /\ args.schedule # None
    /\ Len(Val(args.schedule)) = 24
    /\ sock = "open"
    /\ ts_diff # None

\* C9: on both transports the ids given to the requests made on one open
\* connection increase strictly: each is greater than every id given before it
\* on that connection.
C9_IdsIncrease ==
    \A i, j \in 1..Len(connIds) : i < j => connIds[i] < connIds[j]

C9_Witness ==
    /\ Len(connIds) >= 4
    /\ sock = "open"
    /\ token = "valid"
    /\ connIds[1] = IdRange - 1

\* C10: a reply to a request that is no longer outstanding is ignored: the
\* response a command returns carries the id this command gave its own outer
\* request.
C10_ResponseCarriesOwnId ==
    pc = "idle" /\ result.id # None =>
        /\ sent # <<>>
        /\ result.id = Some(sent[Len(sent)].id)
        /\ sent[Len(sent)].cmd = FacadeCmd(facade)
        /\ Val(result.id) = idc - 1

C10_Witness ==
    /\ pc = "recv"
    /\ lastRecv.kind = "stale"
    /\ cur.cmd # CmdTs
    /\ ncalls >= 2
    /\ result.exc = "TimeoutError"

\* C11: in every state the clock offset is set if and only if a token is
\* configured and an exchange has succeeded since the last disconnect (the
\* teardown after a failure, or the exit of the with block).
C11_OffsetIffTokenAndExchange ==
    (ts_diff # None) <=> (token # "none" /\ exchanged)

\* C12: on TcpClient one deadline covers the exchange: when it expires before
\* the response with the matching id has come, the exchange raises the timeout
\* without writing the request again (no request goes out twice, no second
\* attempt starts) and the session is torn down.
C12_TcpDeadlineNoResend ==
    [][transport = "tcp" =>
          /\ pc # "idle" /\ pc' = "idle" /\ result'.exc = "TimeoutError" =>
                 /\ lastRecv'.kind # "match"
                 /\ Transmissions(sent', cur.id) <= 1
                 /\ sock' = "none" /\ ts_diff' = None
          /\ pc' \in {"send", "recv"} => attempt' = 1
          /\ \A i \in 1..Len(sent') : Transmissions(sent', sent'[i].id) = 1]_vars

C12_Witness ==
    /\ transport = "tcp"
    /\ token = "valid"
    /\ pc = "idle"
    /\ result.exc = "TimeoutError"
    /\ Len(sent) = 2
    /\ sent[1].cmd = CmdTs
    /\ sock = "none"
    /\ ts_diff = None

\* the frames of a sequence of payloads, as one byte string
RECURSIVE Frames(_)
Frames(ms) == IF ms = <<>> THEN <<>> ELSE Frame(Head(ms)) \o Frames(Tail(ms))

\* the bytes _recvmsg has taken off the stream for the message it is reading
Partial(t) ==
    IF t.phase = "header" THEN t.data
    ELSE IF t.phase = "payload" THEN Pack(t.size) \o t.data
    ELSE <<>>

\* C13: on TcpClient, when the stream ends before the 2-byte header or the
\* announced payload has been read in full, receive raises NetworkError and
\* returns nothing; a message it returns is never a truncated one.
C13_ShortStreamRaisesNetworkError ==
    [][/\ (/\ tcpio.phase \in {"header", "payload"} /\ tcpio.exc = ""
           /\ tcpio.eof /\ tcpio.wire = <<>> /\ tcpio' # tcpio) =>
              /\ tcpio'.exc = "NetworkError"
              /\ tcpio'.received = tcpio.received
       /\ Len(tcpio'.received) > Len(tcpio.received) =>
              /\ tcpio.phase = "payload" => Len(tcpio'.received[Len(tcpio'.received)]) = tcpio.size
              /\ tcpio.phase = "header" => tcpio'.received[Len(tcpio'.received)] = <<>>
       /\ tcpio'.exc # "" => tcpio'.exc = "NetworkError" /\ tcpio'.eof]_vars

C13_Witness ==
    /\ tcpio.exc = "NetworkError"
    /\ tcpio.phase = "payload"
    /\ tcpio.size = 3
    /\ Len(tcpio.data) = 2
    /\ Len(tcpio.received) = 1

\* C14: framing is symmetric and does not depend on how the stream is cut into
\* reads: the payloads written, each after its 2-byte little-endian length,
\* come back from successive receive calls as they were and in order; as long
\* as no byte is lost, the messages returned, the part of a message read so
\* far and the unread bytes are together the frames written.
C14_FramingRoundTrip ==
    /\ tcpio.received = SubSeq(tcpio.msgs, 1, Len(tcpio.received))
    /\ ~tcpio.lost =>
           Frames(tcpio.received) \o Partial(tcpio) \o tcpio.wire
               = Frames(SubSeq(tcpio.msgs, 1, tcpio.nsent))
    /\ tcpio.exc # "" /\ ~tcpio.lost => tcpio.received = SubSeq(tcpio.msgs, 1, tcpio.nsent)

C14_Witness ==
    /\ tcpio.msgs = <<<<1, 0>>, Long>>
    /\ tcpio.received = tcpio.msgs
    /\ tcpio.wire = <<>>
    /\ ~tcpio.eof

\* C15: for every byte string m and every valid key, decrypt(key,
\* encrypt(key, m)) = m; encrypt puts the 16-byte IV after the ciphertext (the
\* padded message, a whole number of blocks) and decrypt takes the last 16
\* bytes of the blob as the IV.
C15_DecryptInvertsEncrypt ==
    /\ aes.phase \in {"encrypted", "decrypted"} =>
           /\ Len(aes.blob) = (Len(aes.msg) \div BlockLen + 2) * BlockLen
           /\ SubSeq(aes.blob, Len(aes.blob) - BlockLen + 1, Len(aes.blob)) = aes.iv
    /\ aes.phase = "decrypted" => aes.plain = Some(aes.msg)

C15_Witness ==
    /\ aes.phase = "decrypted"
    /\ Len(aes.key) = 24
    /\ Len(aes.msg) = BlockLen + 1
    /\ aes.msg[Len(aes.msg)] = 1
    /\ aes.plain = Some(aes.msg)
    /\ SubSeq(aes.blob, 1, BlockLen) # SubSeq(aes.msg, 1, BlockLen)

\* the integer nearest to x2 half seconds, the even one of two equally near
Nearest(x2) ==
    CHOOSE n \in ((x2 \div 2) - 1)..((x2 \div 2) + 1) :
        /\ 2 * n - x2 \in {-1, 0, 1}
        /\ 2 * n - x2 # 0 => n % 2 = 0

\* C16: with a token and the clock offset known, a command issues no timestamp
\* query and sends its request with ts = round(local clock + offset); as long
\* as the offset is known (until the session is torn down) no timestamp query
\* is made.
C16_KnownOffsetGivesTs ==
    [][/\ ncalls' = ncalls + 1 /\ ts_diff # None /\ pc' # "idle" =>
              /\ token # "none"
              /\ pc' = "send"
              /\ cur'.cmd = FacadeCmd(facade')
              /\ cur'.ts = Some(Nearest(clock' + Val(ts_diff)))
              /\ ts_diff' = ts_diff
       /\ ts_diff' # None /\ pc' \in {"send", "recv"} =>
              cur'.cmd # CmdTs /\ cur'.ts # None
       /\ hadOffset' /\ ts_diff' # None => NoTsQuery']_vars

C16_Witness ==
    /\ hadOffset
    /\ pc = "recv"
    /\ ts_diff = Some(2 * 4 - 0)
    /\ clock = 1
    /\ cur.ts = Some(4)
    /\ sent = <<cur>>

\* a message written in plaintext mode: no timestamp query, no ts, no cipher
Plain(m) == m.cmd # CmdTs /\ m.ts = None /\ ~m.enc /\ m.iv = 0

\* C17: a client without a token (None or the empty string) is in plaintext
\* mode all its life: it makes no timestamp query, attaches no ts, encrypts
\* nothing it sends and decrypts nothing it receives, and its clock offset
\* stays unset.
C17_NoTokenPlaintext ==
    token = "none" =>
        /\ ts_diff = None
        /\ ivc = 0
        /\ clock = 0
        /\ ~hadOffset
        /\ \A i \in 1..Len(sent) : Plain(sent[i])
        /\ pc \in {"send", "recv"} => Plain(cur) /\ cur.cmd = FacadeCmd(facade)
        /\ request.ts = None
        /\ lastRecv.kind # "undecryptable"

C17_Witness ==
    /\ token = "none"
    /\ pc = "idle"
    /\ result.kind = "ok"
    /\ ncalls >= 2
    /\ Len(sent) = 1
    /\ lastRecv.kind = "match"
    /\ exchanged

\* the step is a facade call that reaches command()
Invoked ==
    ncalls' = ncalls + 1 /\ ~(pc' = "idle" /\ result'.origin = "validation")

\* C18: a client is constructed disconnected and connects lazily: the connect
\* step runs exactly when a command is invoked while no connection is open,
\* and while the connection stays open later commands reuse it without
\* connecting again.
C18_ConnectsExactlyWhenNotOpen ==
    /\ sock = "none" /\ pc = "idle"
    /\ [][/\ Invoked => (didConnect' <=> sock # "open")
          /\ Invoked /\ didConnect' => pc' = "connect" /\ sock' = "open"
          /\ pc' = "connect" => Invoked
          /\ Invoked /\ sock = "open" /\ sock' # "none" =>
                 sock' = "open" /\ connIds' # <<>>]_vars

\* C19: leaving the with block of a client, normally or through an exception,
\* closes the connection if one is open and does nothing if the client never
\* connected (or has no socket); the exception, if any, is not suppressed.
C19_ExitClosesAndPropagates ==
    [][withExit'.left /\ withExit' # withExit =>
          /\ sock = "open" => sock' = "closed"
          /\ sock = "none" => sock' = "none"
          /\ sock' # "open"
          /\ ~withExit'.suppressed
          /\ UNCHANGED <<ts_diff, idc, ivc, pc, result, sent, request, cur>>]_vars

C19_Witness ==
    /\ withExit.left
    /\ withExit.exc
    /\ sock = "closed"
    /\ result.kind = "raise"
    /\ result.exc = "ProtocolError"

\* C20: when the task running a command is cancelled while its exchange is in
\* flight (waiting in send or receive), the connection is closed and the
\* session is disconnected again (no socket, no clock offset).
C20_CancelClosesConnection ==
    [][(pc # "idle" /\ pc' = "idle" /\ result'.exc = "CancelledError") =>
          ts_diff' = None /\ sock' = "none"]_vars

\* the token strings C21 calls invalid: 30 or 64 hex digits, or a character
\* that is no hex digit
AllHex(t) == \A i \in 1..Len(t) : HexVal(t[i]) >= 0
ClaimBadToken(g) ==
    g # None /\ Val(g) # <<>>
    /\ (~AllHex(Val(g)) \/ Len(Val(g)) \in {30, 64})
\* and those it calls accepted: 32 hex digits in either case, "" and None
ClaimGoodToken(g) ==
    g = None \/ Val(g) = <<>> \/ (AllHex(Val(g)) /\ Len(Val(g)) = 32)

\* C21: constructing a client with a token that is no valid key (30 hex
\* digits, 64 hex digits, or a string with a character that is no hex digit)
\* raises ValueError in the constructor; a token of 32 hex digits in either
\* letter case, the empty string and None are accepted.
C21_InvalidTokenRaisesAtConstruction ==
    ctor.phase \notin {"off", "new"} =>
        /\ ClaimBadToken(ctor.given) => ctor.phase = "raised" /\ ctor.exc = "ValueError"
        /\ ClaimGoodToken(ctor.given) => ctor.phase \in {"created", "used"}

\* the outer requests among the messages written: those that are no timestamp
\* query, each id counted once
OuterIds(log) == {log[i].id : i \in {j \in 1..Len(log) : log[j].cmd # CmdTs}}

\* the data mapping C22 expects of a set_state call: each argument given, and
\* no other, under its wire key, an enum member as its number
Given(d, arg) == d = arg
GivenAs(d, arg, numbers) ==
    IF arg = None THEN d = None ELSE d = Some(numbers[Val(arg)])
ClaimData(d, a) ==
    /\ Given(d.power, a.power)
    /\ GivenAs(d.mode, a.mode, [Auto |-> 0, Pollen |-> 1, Manual |-> 2])
    /\ GivenAs(d.speed, a.speed,
               [SuperSilent |-> 0, Silent |-> 1, Low |-> 2, Medium |-> 3, High |-> 4,
                Turbo |-> 5])
    /\ GivenAs(d.sensitivity, a.sensitivity, [High |-> 0, Medium |-> 1, Low |-> 2])
    /\ Given(d.ionizer, a.ionizer)
    /\ GivenAs(d.moodlight, a.moodlight,
               [Off |-> 0, On |-> 1, Auto |-> 2, Preset1 |-> 2, Preset2 |-> 3,
                Preset3 |-> 4])
    /\ Given(d.filter_cleaning, a.filter_cleaning)
    /\ Given(d.filter_replacement, a.filter_replacement)
    /\ Given(d.filter_life, a.filter_life)
    /\ Given(d.filter_timer, a.filter_timer)
    /\ GivenAs(d.all_light_off, a.lights, [Off |-> 0, On |-> 1, Auto |-> 2])
    /\ Given(d.color, a.color)
    /\ Given(d.lsens_ctl, a.light_sensor_ctl)
    /\ Given(d.filter_ctl, a.filter_ctl)
    /\ Given(d.buzzer, a.buzzer)
    /\ Given(d.lock, a.child_lock)
    /\ GivenAs(d.timer_mode, a.timer_mode, [Off |-> 0, On |-> 1, Schedule |-> 2])
    /\ Given(d.timer, a.timer)
    /\ Given(d.schedule, a.schedule)
    /\ DOMAIN d = {"power", "mode", "speed", "sensitivity", "ionizer", "moodlight",
                   "filter_cleaning", "filter_replacement", "filter_life",
                   "filter_timer", "all_light_off", "color", "lsens_ctl", "filter_ctl",
                   "buzzer", "lock", "timer_mode", "timer", "schedule"}

\* C22: each facade operation sends exactly one outer request, with its
\* command code: get_state cmd 4 and no data, get_info cmd 255 and no data,
\* set_state cmd 4 and a data mapping that holds exactly the arguments given
\* (not None), each under its wire key (lights as all_light_off,
\* light_sensor_ctl as lsens_ctl, child_lock as lock), an enum member as its
\* numeric value.
C22_FacadeSendsOneRequest ==
    /\ Cardinality(OuterIds(sent)) <= 1
    /\ \A i \in 1..Len(sent) :
           sent[i].cmd # CmdTs =>
               /\ facade = "get_state" => sent[i].cmd = 4 /\ sent[i].data = None
               /\ facade = "get_info" => sent[i].cmd = 255 /\ sent[i].data = None
               /\ facade = "set_state" =>
                      /\ sent[i].cmd = 4
                      /\ sent[i].data # None
                      /\ ClaimData(Val(sent[i].data), args)
    /\ pc = "idle" /\ result.kind = "ok" => Cardinality(OuterIds(sent)) = 1

C22_Witness ==
    /\ pc = "idle"
    /\ result.kind = "ok"
    /\ facade = "set_state"
    /\ args.child_lock = Some(FALSE)
    /\ args.lights = Some("Off")
    /\ args.schedule # None
    /\ Len(sent) = 1
    /\ Val(sent[1].data).lock = Some(FALSE)
    /\ Val(sent[1].data).all_light_off = Some(0)
    /\ Val(sent[1].data).moodlight = Some(1)

\* the key and the values of each enum-typed field, as C23 and C24 read them
ClaimKey(f) == IF f = "lights" THEN "all_light_off" ELSE f
ClaimValues(f) ==
    CASE f = "model" -> {1, 2, 3}
      [] f \in {"mode", "sensitivity", "lights", "timer_mode"} -> {0, 1, 2}
      [] f = "speed" -> {0, 1, 2, 3, 4, 5}
      [] f \in {"quality", "moodlight", "filter_type", "gas"} -> {0, 1, 2, 3, 4}
      [] f = "error" -> {0, 1, 2, 3, 4, 5, 8}
ClaimEnum(f) == IF f = "quality" THEN Quality ELSE EnumProps[f].enum
WasRead == view.phase \in {"read", "shown"}
Held == view.data[ClaimKey(view.field)]
GotMemberOf(n) ==
    /\ view.got.kind = "member"
    /\ EnumValue(ClaimEnum(view.field), view.got.name) = n

QualityNames == <<"Lowest", "Low", "Medium", "High", "Highest">>
QualityOf(v) == IF v \in 0..4 THEN Returns(QualityNames[v + 1]) ELSE Raises("ValueError")

\* C24: quality gives None when its key is missing, Quality(value - 1) when
\* the model is BioGS, and Quality(value) for every other model and for a
\* missing model.
C24_QualityCorrectedForBioGS ==
    WasRead /\ view.field = "quality" =>
        /\ view.data["quality"].kind = "absent" => view.got = ReturnsNone
        /\ view.data["quality"].kind = "int" /\ view.data["model"] = Number(2) =>
               view.got = QualityOf(view.data["quality"].n - 1)
        /\ view.data["quality"].kind = "int"
             /\ view.data["model"] \in {Absent, Number(1), Number(3)} =>
               view.got = QualityOf(view.data["quality"].n)

\* State({"model": 2, "quality": 1}) of test_state_biogs_case
C24_Witness ==
    /\ WasRead
    /\ view.field = "quality"
    /\ view.data["model"] = Number(2)
    /\ view.data["quality"] = Number(1)
    /\ view.got = Returns("Lowest")

\* C25: a command on UdpClient ends after a bounded number of transmissions:
\* each of its exchanges (the timestamp query, the outer request) writes at
\* most retry_count datagrams, and a packet that is received and discarded
\* neither adds an attempt nor restarts the deadline of the attempt: the
\* time an exchange takes stays within retry_count deadlines.
C25_UdpBoundedTransmissions ==
    /\ [](transport = "udp" =>
             /\ timer.datagrams <= 3
             /\ timer.attempt <= 3
             /\ timer.exch <= 2
             /\ timer.spent <= 3 * 2
             /\ timer.phase = "failed" => timer.datagrams = 3 /\ timer.spent = 3 * 2)
    /\ [][(transport = "udp" /\ timer'.discarded # timer.discarded) =>
              /\ timer'.attempt = timer.attempt
              /\ timer'.datagrams = timer.datagrams
              /\ timer'.elapsed = timer.elapsed
              /\ timer'.phase = "recv"]_vars

C25_Witness ==
    /\ transport = "udp"
    /\ timer.phase = "failed"
    /\ timer.exch = 2
    /\ timer.discarded = MaxDiscarded
    /\ timer.datagrams = retry_count

\* the command has written nothing but timestamp queries
OnlyTsQueries(log) == \A i \in 1..Len(log) : log[i].cmd = 9

\* C26: when the device answers the timestamp query with an error, command
\* raises ProtocolError; the outer request is not sent and gets no id, the
\* socket stays open and the clock offset unset; the next command issues the
\* timestamp query again.
C26_TsQueryErrorLeavesSessionUnsynced ==
    /\ [][(pc = "recv" /\ cur.cmd = 9 /\ lastRecv'.kind = "match" /\ lastRecv'.error) =>
              /\ pc' = "idle"
              /\ result'.kind = "raise"
              /\ result'.exc = "ProtocolError"
              /\ idc' = idc
              /\ sent' = sent
              /\ OnlyTsQueries(sent)
              /\ sock' = "open"
              /\ ts_diff' = None]_vars
    /\ [][(pc = "idle" /\ result.exc = "ProtocolError" /\ ts_diff = None
              /\ token = "valid" /\ pc' = "send") =>
              /\ cur'.cmd = 9
              /\ request'.id = None
              /\ idc' = idc + 1]_vars

\* the timestamp query of the second command was answered with an error too
C26_Witness ==
    /\ pc = "idle"
    /\ ncalls = 2
    /\ ~didConnect
    /\ result.exc = "ProtocolError"
    /\ lastRecv.kind = "match"
    /\ lastRecv.error
    /\ Len(sent) >= 1
    /\ OnlyTsQueries(sent)
    /\ sock = "open"
    /\ ts_diff = None
    /\ idc = id0 + 2

\* C27: in every sequence of non-overlapping commands, whatever fails, the
\* guards of the engine hold where they are reached: _start runs with no
\* socket, _stop with a socket, _get_ts with a clock offset, _encrypt and
\* _decrypt with a token, send and receive with a socket; the caller never
\* sees an AssertionError in place of the failure.
C27_GuardAssertionsHold ==
    /\ [](result.exc # "AssertionError")
    /\ [](pc \in {"connect", "send", "recv"} => sock # "none")
    /\ [](cur.enc => token # "none")
    /\ [][/\ pc = "idle" /\ pc' = "connect" => sock = "none"
          /\ (pc \in {"idle", "connect"} /\ pc' = "send" /\ token # "none"
                /\ cur'.cmd # 9) => ts_diff # None
          /\ (pc # "idle" /\ pc' = "idle" /\ TornDown(result')) => sock # "none"]_vars

\* C28: the exit of the with block closes the socket and keeps the handle
\* and the clock offset; the first command after it runs no connect step,
\* fails on the closed socket and tears the session down; only the command
\* after that connects again and, with a token, repeats the timestamp query.
C28_FirstCommandAfterExitFails ==
    [][/\ (withExit'.left /\ withExit' # withExit /\ sock = "open") =>
              sock' = "closed" /\ ts_diff' = ts_diff
       /\ (sock = "closed" /\ pc = "idle" /\ pc' # "idle") =>
              /\ ~didConnect'
              /\ pc' = "send"
              /\ sock' = "closed"
              /\ token # "none" /\ ts_diff # None => cur'.cmd # 9
       /\ (sock = "closed" /\ ncalls' = ncalls + 1 /\ pc' = "idle") =>
              \/ result'.origin = "validation"
              \/ token = "badlen" /\ TornDown(result') /\ sock' = "none"
       /\ (sock = "closed" /\ pc # "idle") =>
              /\ sent' = sent
              /\ pc' = "idle"
              /\ result'.kind = "raise"
              /\ result'.exc = "OSError"
              /\ sock' = "none"
              /\ ts_diff' = None
       /\ (sock = "none" /\ pc = "idle" /\ pc' # "idle") => didConnect' /\ pc' = "connect"
       /\ (pc = "connect" /\ pc' = "send" /\ token # "none") => cur'.cmd = 9]_vars

\* the first command after the exit, with the offset of the session before
\* it, about to write to the closed socket
C28_Witness ==
    /\ sock = "closed"
    /\ pc = "send"
    /\ ~didConnect
    /\ token = "valid"
    /\ ts_diff # None
    /\ cur.ts # None
    /\ ncalls = 2

\* the offsets in the inbound stream of the connection at which a frame begins
Boundaries(t) ==
    {Len(Frames(SubSeq(t.msgs, t.base + 1, j))) : j \in t.base..Len(t.msgs)}

\* C29: on TcpClient every receive of a message starts at a frame boundary of
\* the inbound stream: an exchange that stops reading in the middle of a
\* frame is followed by the close of the connection before anything else is
\* received, so no later command takes payload bytes for a length header.
C29_ReceiveStartsAtFrameBoundary ==
    tcpio.phase \in {"header", "payload"} => tcpio.start \in Boundaries(tcpio)

\* C30: two command invocations that overlap on one session get distinct
\* request ids, and each of them either returns the response that carries
\* its own request id or fails; neither returns the response addressed to
\* the other.
C30_OverlappingCommandsKeepTheirIds ==
    \A t \in Tasks : \A u \in Tasks \ {t} :
        /\ ov.task[t].ids \cap ov.task[u].ids = {}
        /\ ov.task[t].pc = "done" =>
               /\ ov.task[t].ret # None
               /\ ov.task[t].ret = ov.task[t].id
               /\ Val(ov.task[t].ret) \in ov.task[t].ids
               /\ Val(ov.task[t].ret) \notin ov.task[u].ids
        /\ ov.task[t].ret # None => ov.task[t].pc = "done"
        /\ ov.task[t].pc = "failed" => ov.task[t].exc # "" /\ ov.task[t].ret = None

\* both tasks returned, after timestamp queries and requests that alternated
C30_Witness ==
    /\ token = "valid"
    /\ ov.task[1].pc = "done"
    /\ ov.task[2].pc = "done"
    /\ ov.task[1].ids = {0, 2}
    /\ ov.task[2].ids = {1, 3}
    /\ ov.task[1].ret = Some(2)
    /\ ov.task[2].ret = Some(3)

====
